---- MODULE Spec2Model ----
(***************************************************************************)
(* A model of the whosthere TUI application core: the discovery scan loop, *)
(* the interface hot-swap, the event handler, the probe and port-scan      *)
(* goroutines and the device store (internal/ui/app.go), the prober        *)
(* pipeline (probe.RunAll) and the OS / device-type classifiers.           *)
(*                                                                         *)
(* Spec         : the application, every goroutine of internal/ui/app.go.  *)
(* SpecSwitch   : the application when the user only switches interfaces.  *)
(* SpecDevice   : the application on one interface, the user selecting,    *)
(*                probing, port-scanning and waking devices.               *)
(* SpecRunAll   : one call of Prober.RunAll with its context.              *)
(* SpecClassify : the OS and device-type classifiers, called twice.        *)
(* SpecSink     : the events channel at its capacity: the keys of the port *)
(*                scan modal and the event handler.                        *)
(* SpecSwitchFair : SpecSwitch with every goroutine scheduled.             *)
(* SpecStartStop  : the keys of the port scan modal, the handler and the   *)
(*                startPortscan goroutine, every goroutine scheduled.      *)
(* SpecRunAllPorts : one call of Prober.RunAll on ports in scan order.     *)
(* SpecParseSteps : parseNBSTATResponse step by step over a buffer.        *)
(* SpecDetectOS, SpecFingerprint, SpecClassifyTTL, SpecSanitizeBanner,     *)
(* SpecSendWoL, SpecBroadcastAddr, SpecParseNBSTAT, SpecListAll,           *)
(* SpecNewInterfaceInfo, SpecOsFromSSHBanner, SpecOsFromHTTPServer,        *)
(* SpecOsFromBanners, SpecOsFromExtraData, SpecOsFromPorts : one call of   *)
(*                the function on any of its inputs.                       *)
(*                                                                         *)
(* The packages internal/core/state (AppState, the device store) and       *)
(* internal/core/discovery (Device, Engine, PortScanner) are modelled from *)
(* their documented contract; every other definition follows the source.   *)
(***************************************************************************)
EXTENDS Integers, Sequences, FiniteSets, TLC

\* ------------------------------------------------------------------ bounds
\* InterfaceSelected requests the UI makes in one run.
MaxSwitches == 1
\* Requests of any kind the UI makes in one run.
MaxRequests == 3
\* Events the producers of the application let wait in the events channel at one time.
MaxQueue == 2
\* Capacity of the events channel (make(chan events.Event, 100)).
EventsCap == 100

None == "none"

Min(a, b) == IF a < b THEN a ELSE b

\* ------------------------------------------------------- host environment
\* The interfaces of the host: eth0 and eth1 carry an IPv4 address, wg0 exists
\* without one, and any other name is unknown to net.InterfaceByName.
HostInterfaces == {"eth0", "eth1", "wg0"}
RequestNames == {"eth0", "eth1", "wg0", "nope"}

IfaceIPv4(n) ==
  CASE n = "eth0" -> "10.0.0.1"
    [] n = "eth1" -> "10.1.0.1"
    [] OTHER -> None

IfaceMAC(n) ==
  CASE n = "eth0" -> "02:00:00:00:00:01"
    [] n = "eth1" -> "02:00:00:00:01:01"
    [] OTHER -> ""

\* The host a scanner can see on each interface's subnet.
RemoteIP(n) == IF n = "eth0" THEN "10.0.0.2" ELSE "10.1.0.2"
RemoteMAC(n) == IF n = "eth0" THEN "02:00:00:00:00:02" ELSE "02:00:00:00:01:02"

\* The interface whose subnet holds ip.
SubnetOf(ip) == IF ip \in {"10.0.0.1", "10.0.0.2"} THEN "eth0" ELSE "eth1"

\* NewInterfaceInfo: the interface must exist and carry an IPv4 address.
NewInterfaceInfo(name) ==
  IF name \notin HostInterfaces THEN [ok |-> FALSE, err |-> "NameNotFound", iface |-> None]
  ELSE IF IfaceIPv4(name) = None THEN [ok |-> FALSE, err |-> "InterfaceHasNoIPv4", iface |-> None]
  ELSE [ok |-> TRUE, err |-> "", iface |-> name]

\* ------------------------------------------------------------------ Device
EmptyMap == [k \in {} |-> ""]

NewDevice(ip) ==
  [IP |-> ip, MAC |-> "", Manufacturer |-> "", DisplayName |-> "",
   Sources |-> {}, ExtraData |-> EmptyMap,
   ReverseDNS |-> "", Latency |-> 0, Banners |-> EmptyMap,
   HTTPTitle |-> "", HTTPServer |-> "", NetBIOSName |-> "", DeviceType |-> "",
   OpenPorts |-> EmptyMap, LastPortScan |-> 0, LastProbe |-> 0]

\* "non-empty new values replace empty old values"
Fill(old, new, empty) == IF old = empty THEN new ELSE old

\* "sets and maps are unioned": a key of both keeps its old non-empty value.
UnionMap(old, new) ==
  [k \in DOMAIN old \cup DOMAIN new |->
     IF k \in DOMAIN old /\ (k \notin DOMAIN new \/ old[k] # "") THEN old[k] ELSE new[k]]

\* The per-protocol port list: the new list fully replaces the previous one.
ReplaceMap(old, new) ==
  [k \in DOMAIN old \cup DOMAIN new |-> IF k \in DOMAIN new THEN new[k] ELSE old[k]]

\* Device.Merge: the field-wise merge of an observation into a stored device.
Merge(old, new) ==
  [IP |-> old.IP,
   MAC |-> Fill(old.MAC, new.MAC, ""),
   Manufacturer |-> Fill(old.Manufacturer, new.Manufacturer, ""),
   DisplayName |-> Fill(old.DisplayName, new.DisplayName, ""),
   Sources |-> old.Sources \cup new.Sources,
   ExtraData |-> UnionMap(old.ExtraData, new.ExtraData),
   ReverseDNS |-> Fill(old.ReverseDNS, new.ReverseDNS, ""),
   Latency |-> Fill(old.Latency, new.Latency, 0),
   Banners |-> UnionMap(old.Banners, new.Banners),
   HTTPTitle |-> Fill(old.HTTPTitle, new.HTTPTitle, ""),
   HTTPServer |-> Fill(old.HTTPServer, new.HTTPServer, ""),
   NetBIOSName |-> Fill(old.NetBIOSName, new.NetBIOSName, ""),
   DeviceType |-> Fill(old.DeviceType, new.DeviceType, ""),
   OpenPorts |-> ReplaceMap(old.OpenPorts, new.OpenPorts),
   LastPortScan |-> IF new.LastPortScan # 0 THEN new.LastPortScan ELSE old.LastPortScan,
   LastProbe |-> IF new.LastProbe # 0 THEN new.LastProbe ELSE old.LastProbe]

\* AppState.UpsertDevice: insert under the device's IP, or merge into the entry.
UpsertDevice(store, d) ==
  [ip \in DOMAIN store \cup {d.IP} |->
     IF ip # d.IP THEN store[ip]
     ELSE IF ip \in DOMAIN store THEN Merge(store[ip], d) ELSE d]

\* AppState.ClearDevices
ClearDevices(store) == [ip \in {} |-> NewDevice(ip)]

\* AppState.Selected: the stored device under the selected IP, if there is one.
SelectedOk(store, sel) == sel \in DOMAIN store

\* ---------------------------------------------------- scanner observations
\* What the engine's scanners report for the host on interface n: an ARP reply
\* (MAC, OUI manufacturer) and an mDNS answer (instance name, service type).
ArpObservation(n) ==
  [NewDevice(RemoteIP(n)) EXCEPT !.MAC = RemoteMAC(n), !.Manufacturer = "Acme Corp",
                                 !.Sources = {"arp"}]

MdnsObservation(n) ==
  [NewDevice(RemoteIP(n)) EXCEPT !.DisplayName = "printer.local", !.Sources = {"mdns"},
                                 !.ExtraData = [k \in {"mdns.service"} |-> "_ipp._tcp"]]

Observations(n) == {ArpObservation(n), MdnsObservation(n)}

\* ouiDB.Lookup of the interface's own MAC.
OuiLookup(mac) == IF mac = "" THEN "" ELSE "Acme Corp"

\* injectLocalDevice, lines 511-518: the synthetic device of the host itself.
LocalDevice(n) ==
  [NewDevice(IfaceIPv4(n)) EXCEPT !.MAC = IfaceMAC(n), !.DisplayName = "(this device)",
                                  !.Sources = {"local"},
                                  !.Manufacturer = OuiLookup(IfaceMAC(n))]

\* cfg.PortScanner.TCP
PortList == {22, 80}

\* --------------------------------------------------------------- variables
VARIABLES
  engine,          \* a.engine: the interface its scanners are built on
  portScanner,     \* a.portScanner: the interface it dials from
  iface,           \* a.iface
  activeInterface, \* state.ActiveInterface()
  localIP,         \* state.LocalIP()
  devices,         \* the device store: IP -> Device
  selectedIP,      \* state.SelectedIP
  isDiscovering, isPortscanning, isProbing,
  events,          \* a.events, the channel to handleEvents
  hpc,             \* where handleEvents stands
  uiPending,       \* events the UI goroutine has still to emit
  requests,        \* requests the UI has made
  scanCancel,      \* a.scanCancel: the loop whose cycle context it cancels (0: nil)
  scanTicker,      \* a.scanTicker: the newest ticker (one per scan loop)
  tickers,         \* ticker -> "running", "stopped", or "stale": stopped, a tick left in its channel
  loops,           \* the scan-loop goroutines
  switches,        \* the switchInterface goroutines
  portscans,       \* the startPortscan goroutines
  probes,          \* the startProbe goroutines
  wolPending,      \* sendWoL goroutines started and not yet returned
  clock,           \* time.Now()
  clearCount,      \* how often the store was cleared
  upserted,        \* the IPs upserted since the store was last cleared
  runAll,          \* one call of Prober.RunAll
  classify,        \* one device put to the classifiers, twice
  call             \* one call of a function of the probe or discovery package

appVars == <<engine, portScanner, iface, activeInterface, localIP, devices, selectedIP,
             isDiscovering, isPortscanning, isProbing, events, hpc, uiPending, requests,
             scanCancel, scanTicker, tickers, loops, switches, portscans, probes,
             wolPending, clock, clearCount, upserted>>

\* The variables of the prober and of the classifiers, which the application's
\* goroutines leave alone.
libVars == <<runAll, classify, call>>

MaxLoops == MaxSwitches + 1
LoopIds == 1..MaxLoops
SwitchIds == 1..MaxSwitches
\* A goroutine is started per request at most.
ProcIds == 1..MaxRequests

Event(type, arg) == [type |-> type, arg |-> arg]

\* a.emit: a send on the buffered channel, which blocks while the channel is full.
ChannelOpen == Len(events) < EventsCap

\* The user and the scan loops of the bounded application stop at MaxQueue events in
\* the channel; a goroutine that reports its end waits for room in the channel only.
CanEmit == ChannelOpen /\ Len(events) < MaxQueue

IdleLoop == [pc |-> "off", tk |-> 0, eng |-> None, ctx |-> None, local |-> None, epoch |-> 0]
IdleSwitch == [pc |-> "off", name |-> None, info |-> None]

\* NewApp and Run on cfg.NetworkInterface = eth0: the engine is built, the event
\* handler runs and the first scan loop has been started.
AppInit ==
  /\ engine = "eth0" /\ portScanner = "eth0" /\ iface = "eth0"
  /\ activeInterface = "eth0" /\ localIP = IfaceIPv4("eth0")
  /\ devices = ClearDevices(EmptyMap)
  /\ selectedIP = ""
  /\ isDiscovering = FALSE /\ isPortscanning = FALSE /\ isProbing = FALSE
  /\ events = <<>> /\ hpc = "idle" /\ uiPending = <<>> /\ requests = 0
  /\ scanCancel = 0 /\ scanTicker = 1
  /\ tickers = [t \in LoopIds |-> "running"]
  /\ loops = [g \in LoopIds |-> IF g = 1 THEN [IdleLoop EXCEPT !.pc = "start"] ELSE IdleLoop]
  /\ switches = [i \in SwitchIds |-> IdleSwitch]
  /\ portscans = <<>> /\ probes = <<>>
  /\ wolPending = 0
  /\ clock = 0 /\ clearCount = 0 /\ upserted = {}

\* ------------------------------------------------------------ the scan loop
\* The cycle of loop g is in progress: DiscoveryStarted is emitted, DiscoveryStopped not yet.
InCycle(g) == loops[g].pc \in {"ctx", "stream", "inject", "upsert", "stop"}

\* performScan, line 229: emit DiscoveryStarted.
ScanStart(g) ==
  /\ loops[g].pc = "start" /\ CanEmit
  /\ events' = Append(events, Event("DiscoveryStarted", ""))
  /\ loops' = [loops EXCEPT ![g].pc = "ctx", ![g].epoch = clearCount]
  /\ UNCHANGED <<libVars, upserted, engine, portScanner, iface, activeInterface, localIP, devices, selectedIP,
                 isDiscovering, isPortscanning, isProbing, hpc, uiPending, requests,
                 scanCancel, scanTicker, tickers, switches, portscans, probes,
                 wolPending, clock, clearCount>>

\* performScan, lines 231-236: the cycle's context, a.scanCancel, and the call of
\* a.engine.Stream.
ScanStream(g) ==
  /\ loops[g].pc = "ctx"
  /\ scanCancel' = g
  /\ loops' = [loops EXCEPT ![g].pc = "stream", ![g].ctx = "live", ![g].eng = engine]
  /\ UNCHANGED <<libVars, upserted, engine, portScanner, iface, activeInterface, localIP, devices, selectedIP,
                 isDiscovering, isPortscanning, isProbing, events, hpc, uiPending, requests,
                 scanTicker, tickers, switches, portscans, probes,
                 wolPending, clock, clearCount>>

\* The callback of Stream, lines 236-238: a scanner of the cycle's engine reports a device.
ScanObserve(g) ==
  /\ loops[g].pc = "stream"
  /\ \E d \in Observations(loops[g].eng) :
       /\ devices' = UpsertDevice(devices, d)
       /\ upserted' = upserted \cup {d.IP}
  /\ UNCHANGED <<libVars, engine, portScanner, iface, activeInterface, localIP, selectedIP,
                 isDiscovering, isPortscanning, isProbing, events, hpc, uiPending, requests,
                 scanCancel, scanTicker, tickers, loops, switches, portscans, probes,
                 wolPending, clock, clearCount>>

\* Stream returns once its context is done: it was cancelled, or the scan window
\* (context.WithTimeout, ScanDuration) ends now; line 239, cancel().
ScanReturn(g) ==
  /\ loops[g].pc = "stream" /\ loops[g].ctx \in {"done", "live"}
  /\ loops' = [loops EXCEPT ![g].pc = "inject", ![g].ctx = "done"]
  /\ UNCHANGED <<libVars, upserted, engine, portScanner, iface, activeInterface, localIP, devices, selectedIP,
                 isDiscovering, isPortscanning, isProbing, events, hpc, uiPending, requests,
                 scanCancel, scanTicker, tickers, switches, portscans, probes,
                 wolPending, clock, clearCount>>

\* injectLocalDevice, lines 507-518: read a.iface and build the local device.
InjectBuild(g) ==
  /\ loops[g].pc = "inject"
  /\ loops' = [loops EXCEPT ![g].pc = "upsert", ![g].local = iface]
  /\ UNCHANGED <<libVars, upserted, engine, portScanner, iface, activeInterface, localIP, devices, selectedIP,
                 isDiscovering, isPortscanning, isProbing, events, hpc, uiPending, requests,
                 scanCancel, scanTicker, tickers, switches, portscans, probes,
                 wolPending, clock, clearCount>>

\* The store set to the local device alone, in place of an upsert.
InjectStoreOnly(n) == [ip \in {LocalDevice(n).IP} |-> LocalDevice(n)]

\* injectLocalDevice, line 520: a.state.UpsertDevice(&localDev).
InjectStore(n) == UpsertDevice(devices, LocalDevice(n))

InjectUpsert(g) ==
  /\ loops[g].pc = "upsert"
  /\ devices' = InjectStore(loops[g].local)
  /\ upserted' = upserted \cup {LocalDevice(loops[g].local).IP}
  /\ loops' = [loops EXCEPT ![g].pc = "stop"]
  /\ UNCHANGED <<libVars, engine, portScanner, iface, activeInterface, localIP, selectedIP,
                 isDiscovering, isPortscanning, isProbing, events, hpc, uiPending, requests,
                 scanCancel, scanTicker, tickers, switches, portscans, probes,
                 wolPending, clock, clearCount>>

\* performScan, line 244: emit DiscoveryStopped and return to the loop; after its
\* first cycle the goroutine evaluates a.scanTicker.C, the channel it ranges over.
ScanStop(g) ==
  /\ loops[g].pc = "stop" /\ CanEmit
  /\ events' = Append(events, Event("DiscoveryStopped", ""))
  /\ loops' = [loops EXCEPT ![g].pc = "wait", ![g].ctx = None, ![g].eng = None,
                            ![g].local = None, ![g].epoch = 0,
                            ![g].tk = IF loops[g].tk = 0 THEN scanTicker ELSE loops[g].tk]
  /\ UNCHANGED <<libVars, upserted, engine, portScanner, iface, activeInterface, localIP, devices, selectedIP,
                 isDiscovering, isPortscanning, isProbing, hpc, uiPending, requests,
                 scanCancel, scanTicker, tickers, switches, portscans, probes,
                 wolPending, clock, clearCount>>

\* for range a.scanTicker.C, lines 209-211: the ticker fires and the loop receives the
\* tick (a stopped ticker delivers at most the tick left in its channel); scan again.
ScanTick(g) ==
  /\ loops[g].pc = "wait" /\ tickers[loops[g].tk] # "stopped"
  /\ tickers' = [tickers EXCEPT ![loops[g].tk] = IF @ = "stale" THEN "stopped" ELSE @]
  /\ loops' = [loops EXCEPT ![g].pc = "start"]
  /\ UNCHANGED <<libVars, upserted, engine, portScanner, iface, activeInterface, localIP, devices, selectedIP,
                 isDiscovering, isPortscanning, isProbing, events, hpc, uiPending, requests,
                 scanCancel, scanTicker, switches, portscans, probes,
                 wolPending, clock, clearCount>>

\* ---------------------------------------------------------- switchInterface
\* Lines 392-396: nothing to do when the interface is the active one.
SwitchCheck(i) ==
  /\ switches[i].pc = "check"
  /\ switches' = [switches EXCEPT ![i] =
                    IF switches[i].name = activeInterface
                    THEN [IdleSwitch EXCEPT !.pc = "same"] ELSE [@ EXCEPT !.pc = "cancel"]]
  /\ UNCHANGED <<libVars, upserted, engine, portScanner, iface, activeInterface, localIP, devices, selectedIP,
                 isDiscovering, isPortscanning, isProbing, events, hpc, uiPending, requests,
                 scanCancel, scanTicker, tickers, loops, portscans, probes,
                 wolPending, clock, clearCount>>

\* Lines 401-405: cancel the context of the cycle in progress. The call returns at
\* once; nothing waits for performScan to return.
SwitchCancel(i) ==
  /\ switches[i].pc = "cancel"
  /\ loops' = IF scanCancel # 0 /\ loops[scanCancel].ctx = "live"
              THEN [loops EXCEPT ![scanCancel].ctx = "done"] ELSE loops
  /\ switches' = [switches EXCEPT ![i].pc = "stopTicker"]
  /\ UNCHANGED <<libVars, upserted, engine, portScanner, iface, activeInterface, localIP, devices, selectedIP,
                 isDiscovering, isPortscanning, isProbing, events, hpc, uiPending, requests,
                 scanCancel, scanTicker, tickers, portscans, probes,
                 wolPending, clock, clearCount>>

\* Lines 408-410: a.scanTicker.Stop(). The channel is not closed; whether a tick that
\* already waits in it is still delivered depends on the Go release.
SwitchStopTicker(i) ==
  /\ switches[i].pc = "stopTicker"
  /\ \E left \in {"stopped", "stale"} :
       tickers' = [tickers EXCEPT ![scanTicker] = IF @ = "running" THEN left ELSE @]
  /\ switches' = [switches EXCEPT ![i].pc = "newInfo"]
  /\ UNCHANGED <<libVars, upserted, engine, portScanner, iface, activeInterface, localIP, devices, selectedIP,
                 isDiscovering, isPortscanning, isProbing, events, hpc, uiPending, requests,
                 scanCancel, scanTicker, loops, portscans, probes,
                 wolPending, clock, clearCount>>

\* Lines 413-417: build the interface info; on an error log it and return.
SwitchNewInfo(i) ==
  /\ switches[i].pc = "newInfo"
  /\ LET r == NewInterfaceInfo(switches[i].name) IN
       switches' = [switches EXCEPT ![i] =
                      IF r.ok THEN [@ EXCEPT !.pc = "rebuild", !.info = r.iface]
                      ELSE [IdleSwitch EXCEPT !.pc = "failed"]]
  /\ UNCHANGED <<libVars, upserted, engine, portScanner, iface, activeInterface, localIP, devices, selectedIP,
                 isDiscovering, isPortscanning, isProbing, events, hpc, uiPending, requests,
                 scanCancel, scanTicker, tickers, loops, portscans, probes,
                 wolPending, clock, clearCount>>

\* Lines 420-422: rebuild the engine and the port scanner on the new interface.
SwitchRebuild(i) ==
  /\ switches[i].pc = "rebuild"
  /\ engine' = switches[i].info /\ portScanner' = switches[i].info /\ iface' = switches[i].info
  /\ switches' = [switches EXCEPT ![i].pc = "setState"]
  /\ UNCHANGED <<libVars, upserted, activeInterface, localIP, devices, selectedIP,
                 isDiscovering, isPortscanning, isProbing, events, hpc, uiPending, requests,
                 scanCancel, scanTicker, tickers, loops, portscans, probes,
                 wolPending, clock, clearCount>>

\* Lines 425-428: SetActiveInterface, SetLocalIP.
SwitchSetState(i) ==
  /\ switches[i].pc = "setState"
  /\ activeInterface' = switches[i].name
  /\ localIP' = IfaceIPv4(switches[i].info)
  /\ switches' = [switches EXCEPT ![i].pc = "clear"]
  /\ UNCHANGED <<libVars, upserted, engine, portScanner, iface, devices, selectedIP,
                 isDiscovering, isPortscanning, isProbing, events, hpc, uiPending, requests,
                 scanCancel, scanTicker, tickers, loops, portscans, probes,
                 wolPending, clock, clearCount>>

\* Line 429: a.state.ClearDevices().
SwitchClear(i) ==
  /\ switches[i].pc = "clear"
  /\ devices' = ClearDevices(devices)
  /\ upserted' = {}
  /\ clearCount' = clearCount + 1
  /\ switches' = [switches EXCEPT ![i].pc = "restart"]
  /\ UNCHANGED <<libVars, engine, portScanner, iface, activeInterface, localIP, selectedIP,
                 isDiscovering, isPortscanning, isProbing, events, hpc, uiPending, requests,
                 scanCancel, scanTicker, tickers, loops, portscans, probes,
                 wolPending, clock>>

\* Line 432, startDiscoveryScanLoop: a new ticker and a new scan-loop goroutine.
SwitchRestart(i) ==
  /\ switches[i].pc = "restart" /\ scanTicker < MaxLoops
  /\ scanTicker' = scanTicker + 1
  /\ loops' = [loops EXCEPT ![scanTicker + 1] = [IdleLoop EXCEPT !.pc = "start"]]
  /\ switches' = [switches EXCEPT ![i] = [IdleSwitch EXCEPT !.pc = "done"]]
  /\ UNCHANGED <<libVars, upserted, engine, portScanner, iface, activeInterface, localIP, devices, selectedIP,
                 isDiscovering, isPortscanning, isProbing, events, hpc, uiPending, requests,
                 scanCancel, tickers, portscans, probes,
                 wolPending, clock, clearCount>>

\* ------------------------------------------------------------ startPortscan
\* A goroutine just started by the handler; one that returned leaves the list.
NewProc == [pc |-> "sel", dev |-> NewDevice(None)]
Without(procs, i) == [k \in 1..(Len(procs) - 1) |-> IF k < i THEN procs[k] ELSE procs[k + 1]]

TcpPorts(d) == IF "tcp" \in DOMAIN d.OpenPorts THEN d.OpenPorts["tcp"] ELSE <<>>
SeqToSet(s) == {s[k] : k \in 1..Len(s)}

\* Lines 365-369: no device is selected, emit PortScanStopped and return.
PortscanNoDevice(i) ==
  /\ i \in DOMAIN portscans /\ portscans[i].pc = "sel" /\ ~SelectedOk(devices, selectedIP) /\ ChannelOpen
  /\ events' = Append(events, Event("PortScanStopped", ""))
  /\ portscans' = Without(portscans, i)
  /\ UNCHANGED <<libVars, upserted, engine, portScanner, iface, activeInterface, localIP, devices, selectedIP,
                 isDiscovering, isPortscanning, isProbing, hpc, uiPending, requests,
                 scanCancel, scanTicker, tickers, loops, switches, probes,
                 wolPending, clock, clearCount>>

\* Lines 365-375: copy the selected device, reset its port map, stamp the scan time.
PortscanBegin(i) ==
  /\ i \in DOMAIN portscans /\ portscans[i].pc = "sel" /\ SelectedOk(devices, selectedIP)
  /\ clock' = clock + 1
  /\ portscans' = [portscans EXCEPT ![i] =
       [pc |-> "scan",
        dev |-> [devices[selectedIP] EXCEPT !.OpenPorts = EmptyMap, !.LastPortScan = clock + 1]]]
  /\ UNCHANGED <<libVars, upserted, engine, portScanner, iface, activeInterface, localIP, devices, selectedIP,
                 isDiscovering, isPortscanning, isProbing, events, hpc, uiPending, requests,
                 scanCancel, scanTicker, tickers, loops, switches, probes,
                 wolPending, clearCount>>

\* Lines 379-384, the callback of portScanner.Stream: a port answered (each port once);
\* append it to the copy's tcp list and upsert the copy.
PortscanOpenPort(i) ==
  /\ i \in DOMAIN portscans /\ portscans[i].pc = "scan"
  /\ \E p \in PortList \ SeqToSet(TcpPorts(portscans[i].dev)) :
       LET d == [portscans[i].dev EXCEPT
                   !.OpenPorts = [k \in {"tcp"} |-> Append(TcpPorts(portscans[i].dev), p)]]
       IN /\ portscans' = [portscans EXCEPT ![i].dev = d]
          /\ devices' = UpsertDevice(devices, d)
          /\ upserted' = upserted \cup {d.IP}
  /\ UNCHANGED <<libVars, engine, portScanner, iface, activeInterface, localIP, selectedIP,
                 isDiscovering, isPortscanning, isProbing, events, hpc, uiPending, requests,
                 scanCancel, scanTicker, tickers, loops, switches, probes,
                 wolPending, clock, clearCount>>

\* Stream returns (every port tried, or the scan window over); line 386, emit
\* PortScanStopped.
PortscanStop(i) ==
  /\ i \in DOMAIN portscans /\ portscans[i].pc = "scan" /\ ChannelOpen
  /\ events' = Append(events, Event("PortScanStopped", ""))
  /\ portscans' = Without(portscans, i)
  /\ UNCHANGED <<libVars, upserted, engine, portScanner, iface, activeInterface, localIP, devices, selectedIP,
                 isDiscovering, isPortscanning, isProbing, hpc, uiPending, requests,
                 scanCancel, scanTicker, tickers, loops, switches, probes,
                 wolPending, clock, clearCount>>

\* --------------------------------------------------------------- startProbe
\* What prober.RunAll returns for a device: every sub-probe failed, or each one
\* that had a port to talk to answered.
EmptyResult ==
  [Latency |-> 0, ReverseDNS |-> "", Banners |-> EmptyMap, HTTPTitle |-> "",
   HTTPServer |-> "", DeviceType |-> "Unknown", NetBIOSName |-> ""]

FullResult(d) ==
  LET ports == SeqToSet(TcpPorts(d)) IN
  [Latency |-> 3, ReverseDNS |-> "host.lan",
   Banners |-> [p \in ports |-> IF p = 22 THEN "SSH-2.0-OpenSSH_9.0" ELSE "nginx | Admin"],
   HTTPTitle |-> IF 80 \in ports THEN "Admin" ELSE "",
   HTTPServer |-> IF 80 \in ports THEN "nginx" ELSE "",
   DeviceType |-> IF "mdns.service" \in DOMAIN d.ExtraData THEN "Printer"
                  ELSE IF 22 \in ports THEN "Desktop/Laptop" ELSE "Unknown",
   NetBIOSName |-> "WORKSTATION"]

ProbeResults(d) == {EmptyResult, FullResult(d)}

\* Lines 455-471: apply the result to the copy of the device.
ApplyProbeResult(d, r, now) ==
  [d EXCEPT !.Latency = r.Latency, !.ReverseDNS = r.ReverseDNS, !.Banners = r.Banners,
            !.HTTPTitle = r.HTTPTitle, !.HTTPServer = r.HTTPServer,
            !.DeviceType = r.DeviceType, !.NetBIOSName = r.NetBIOSName,
            !.LastProbe = now,
            !.DisplayName = IF d.DisplayName # "" THEN d.DisplayName
                            ELSE IF r.NetBIOSName # "" THEN r.NetBIOSName
                            ELSE r.ReverseDNS]

\* The probed copy written over the stored entry, in place of an upsert.
ProbeStoreOverwrite(d) ==
  [ip \in DOMAIN devices \cup {d.IP} |-> IF ip = d.IP THEN d ELSE devices[ip]]

\* Line 473: a.state.UpsertDevice(&device).
ProbeStore(d) == UpsertDevice(devices, d)

\* Lines 437-441: no device is selected, emit ProbeStopped and return.
ProbeNoDevice(i) ==
  /\ i \in DOMAIN probes /\ probes[i].pc = "sel" /\ ~SelectedOk(devices, selectedIP) /\ ChannelOpen
  /\ events' = Append(events, Event("ProbeStopped", ""))
  /\ probes' = Without(probes, i)
  /\ UNCHANGED <<libVars, upserted, engine, portScanner, iface, activeInterface, localIP, devices, selectedIP,
                 isDiscovering, isPortscanning, isProbing, hpc, uiPending, requests,
                 scanCancel, scanTicker, tickers, loops, switches, portscans,
                 wolPending, clock, clearCount>>

\* Lines 437-452: copy the selected device and start RunAll on it.
ProbeBegin(i) ==
  /\ i \in DOMAIN probes /\ probes[i].pc = "sel" /\ SelectedOk(devices, selectedIP)
  /\ probes' = [probes EXCEPT ![i] = [pc |-> "run", dev |-> devices[selectedIP]]]
  /\ UNCHANGED <<libVars, upserted, engine, portScanner, iface, activeInterface, localIP, devices, selectedIP,
                 isDiscovering, isPortscanning, isProbing, events, hpc, uiPending, requests,
                 scanCancel, scanTicker, tickers, loops, switches, portscans,
                 wolPending, clock, clearCount>>

\* Lines 452-473: RunAll returns; apply its result to the copy and upsert the copy.
ProbeFinish(i) ==
  /\ i \in DOMAIN probes /\ probes[i].pc = "run"
  /\ clock' = clock + 1
  /\ \E r \in ProbeResults(probes[i].dev) :
       LET d == ApplyProbeResult(probes[i].dev, r, clock + 1) IN
         /\ devices' = ProbeStore(d)
         /\ upserted' = upserted \cup {d.IP}
         /\ probes' = [probes EXCEPT ![i] = [pc |-> "emit", dev |-> NewDevice(None)]]
  /\ UNCHANGED <<libVars, engine, portScanner, iface, activeInterface, localIP, selectedIP,
                 isDiscovering, isPortscanning, isProbing, events, hpc, uiPending, requests,
                 scanCancel, scanTicker, tickers, loops, switches, portscans,
                 wolPending, clearCount>>

\* Line 474: emit ProbeStopped.
ProbeStop(i) ==
  /\ i \in DOMAIN probes /\ probes[i].pc = "emit" /\ ChannelOpen
  /\ events' = Append(events, Event("ProbeStopped", ""))
  /\ probes' = Without(probes, i)
  /\ UNCHANGED <<libVars, upserted, engine, portScanner, iface, activeInterface, localIP, devices, selectedIP,
                 isDiscovering, isPortscanning, isProbing, hpc, uiPending, requests,
                 scanCancel, scanTicker, tickers, loops, switches, portscans,
                 wolPending, clock, clearCount>>

\* ------------------------------------------------------------------ sendWoL
\* Lines 478-503: SendWoL on the selected device's MAC and the broadcast address of
\* a.iface, or a logged warning; the application's state is not touched.
SendWoL ==
  /\ wolPending > 0
  /\ wolPending' = wolPending - 1
  /\ UNCHANGED <<libVars, upserted, engine, portScanner, iface, activeInterface, localIP, devices, selectedIP,
                 isDiscovering, isPortscanning, isProbing, events, hpc, uiPending, requests,
                 scanCancel, scanTicker, tickers, loops, switches, portscans, probes,
                 clock, clearCount>>

\* ------------------------------------------------------------- handleEvents
\* for e := range a.events: the next event is of the given type; receive it.
Receive(type) ==
  /\ hpc = "idle" /\ events # <<>> /\ Head(events).type = type
  /\ events' = Tail(events)

\* Lines 296-297.
HandleDeviceSelected ==
  /\ Receive("DeviceSelected")
  /\ selectedIP' = Head(events).arg
  /\ UNCHANGED <<libVars, upserted, engine, portScanner, iface, activeInterface, localIP, devices,
                 isDiscovering, isPortscanning, isProbing, hpc, uiPending, requests,
                 scanCancel, scanTicker, tickers, loops, switches, portscans, probes,
                 wolPending, clock, clearCount>>

\* Lines 315-318: only the pages change.
HandleHideView ==
  /\ Receive("HideView")
  /\ UNCHANGED <<libVars, upserted, engine, portScanner, iface, activeInterface, localIP, devices, selectedIP,
                 isDiscovering, isPortscanning, isProbing, hpc, uiPending, requests,
                 scanCancel, scanTicker, tickers, loops, switches, portscans, probes,
                 wolPending, clock, clearCount>>

\* Lines 319-322.
HandleDiscovery ==
  /\ \/ Receive("DiscoveryStarted") /\ isDiscovering' = TRUE
     \/ Receive("DiscoveryStopped") /\ isDiscovering' = FALSE
  /\ UNCHANGED <<libVars, upserted, engine, portScanner, iface, activeInterface, localIP, devices, selectedIP,
                 isPortscanning, isProbing, hpc, uiPending, requests,
                 scanCancel, scanTicker, tickers, loops, switches, portscans, probes,
                 wolPending, clock, clearCount>>

\* Lines 323-324: PortScanStarted is received, the flag is set.
HandlePortScanStarted ==
  /\ Receive("PortScanStarted")
  /\ isPortscanning' = TRUE
  /\ hpc' = "emitHide"
  /\ UNCHANGED <<libVars, upserted, engine, portScanner, iface, activeInterface, localIP, devices, selectedIP,
                 isDiscovering, isProbing, uiPending, requests,
                 scanCancel, scanTicker, tickers, loops, switches, portscans, probes,
                 wolPending, clock, clearCount>>

\* Lines 325-326: the handler emits HideView into its own channel, then starts the
\* startPortscan goroutine.
HandlerEmitHide ==
  /\ hpc = "emitHide" /\ ChannelOpen
  /\ events' = Append(events, Event("HideView", ""))
  /\ portscans' = Append(portscans, NewProc)
  /\ hpc' = "idle"
  /\ UNCHANGED <<libVars, upserted, engine, portScanner, iface, activeInterface, localIP, devices, selectedIP,
                 isDiscovering, isPortscanning, isProbing, uiPending, requests,
                 scanCancel, scanTicker, tickers, loops, switches, probes,
                 wolPending, clock, clearCount>>

\* Lines 327-328.
HandlePortScanStopped ==
  /\ Receive("PortScanStopped")
  /\ isPortscanning' = FALSE
  /\ UNCHANGED <<libVars, upserted, engine, portScanner, iface, activeInterface, localIP, devices, selectedIP,
                 isDiscovering, isProbing, hpc, uiPending, requests,
                 scanCancel, scanTicker, tickers, loops, switches, portscans, probes,
                 wolPending, clock, clearCount>>

\* Lines 350-351: go a.switchInterface(event.Name).
HandleInterfaceSelected ==
  /\ Receive("InterfaceSelected")
  /\ \E i \in SwitchIds :
       /\ switches[i].pc = "off"
       /\ \A j \in SwitchIds : j < i => switches[j].pc # "off"
       /\ switches' = [switches EXCEPT ![i] = [IdleSwitch EXCEPT !.pc = "check",
                                                                !.name = Head(events).arg]]
  /\ UNCHANGED <<libVars, upserted, engine, portScanner, iface, activeInterface, localIP, devices, selectedIP,
                 isDiscovering, isPortscanning, isProbing, hpc, uiPending, requests,
                 scanCancel, scanTicker, tickers, loops, portscans, probes,
                 wolPending, clock, clearCount>>

\* Lines 352-354: set the flag and start the startProbe goroutine, whatever the flag was.
HandleProbeStarted ==
  /\ Receive("ProbeStarted")
  /\ isProbing' = TRUE
  /\ probes' = Append(probes, NewProc)
  /\ UNCHANGED <<libVars, upserted, engine, portScanner, iface, activeInterface, localIP, devices, selectedIP,
                 isDiscovering, isPortscanning, hpc, uiPending, requests,
                 scanCancel, scanTicker, tickers, loops, switches, portscans,
                 wolPending, clock, clearCount>>

\* Lines 355-356.
HandleProbeStopped ==
  /\ Receive("ProbeStopped")
  /\ isProbing' = FALSE
  /\ UNCHANGED <<libVars, upserted, engine, portScanner, iface, activeInterface, localIP, devices, selectedIP,
                 isDiscovering, isPortscanning, hpc, uiPending, requests,
                 scanCancel, scanTicker, tickers, loops, switches, portscans, probes,
                 wolPending, clock, clearCount>>

\* Lines 357-358: go a.sendWoL().
HandleWoLRequested ==
  /\ Receive("WoLRequested")
  /\ wolPending' = wolPending + 1
  /\ UNCHANGED <<libVars, upserted, engine, portScanner, iface, activeInterface, localIP, devices, selectedIP,
                 isDiscovering, isPortscanning, isProbing, hpc, uiPending, requests,
                 scanCancel, scanTicker, tickers, loops, switches, portscans, probes,
                 clock, clearCount>>

\* ------------------------------------------------------------- the UI's requests
CountType(q, type) == Cardinality({k \in 1..Len(q) : q[k].type = type})

\* InterfaceSelected requests made so far.
SwitchRequests ==
  Cardinality({i \in SwitchIds : switches[i].pc # "off"}) + CountType(events, "InterfaceSelected")

\* The UI goroutine makes a request: it emits the request's events one after another.
UIRequest(evs) ==
  /\ requests < MaxRequests /\ uiPending = <<>> /\ CanEmit
  /\ requests' = requests + 1
  /\ events' = Append(events, Head(evs))
  /\ uiPending' = Tail(evs)

\* The user selects a row of the device table.
UISelectDevice ==
  /\ \E ip \in DOMAIN devices : UIRequest(<<Event("DeviceSelected", ip)>>)
  /\ UNCHANGED <<libVars, upserted, engine, portScanner, iface, activeInterface, localIP, devices, selectedIP,
                 isDiscovering, isPortscanning, isProbing, hpc,
                 scanCancel, scanTicker, tickers, loops, switches, portscans, probes,
                 wolPending, clock, clearCount>>

\* PortScanModalView, "Start Scan".
UIPortScan ==
  /\ UIRequest(<<Event("PortScanStarted", "")>>)
  /\ UNCHANGED <<libVars, upserted, engine, portScanner, iface, activeInterface, localIP, devices, selectedIP,
                 isDiscovering, isPortscanning, isProbing, hpc,
                 scanCancel, scanTicker, tickers, loops, switches, portscans, probes,
                 wolPending, clock, clearCount>>

\* The probe key of the detail view; the view gates repeat clicks on the probing flag.
UIProbe ==
  /\ ~isProbing
  /\ UIRequest(<<Event("ProbeStarted", "")>>)
  /\ UNCHANGED <<libVars, upserted, engine, portScanner, iface, activeInterface, localIP, devices, selectedIP,
                 isDiscovering, isPortscanning, isProbing, hpc,
                 scanCancel, scanTicker, tickers, loops, switches, portscans, probes,
                 wolPending, clock, clearCount>>

\* The Wake-on-LAN key of the detail view.
UIWoL ==
  /\ UIRequest(<<Event("WoLRequested", "")>>)
  /\ UNCHANGED <<libVars, upserted, engine, portScanner, iface, activeInterface, localIP, devices, selectedIP,
                 isDiscovering, isPortscanning, isProbing, hpc,
                 scanCancel, scanTicker, tickers, loops, switches, portscans, probes,
                 wolPending, clock, clearCount>>

\* InterfacePicker: emit InterfaceSelected{name}, then HideView.
UIInterface ==
  /\ SwitchRequests < MaxSwitches
  /\ \E n \in RequestNames :
       UIRequest(<<Event("InterfaceSelected", n), Event("HideView", "")>>)
  /\ UNCHANGED <<libVars, upserted, engine, portScanner, iface, activeInterface, localIP, devices, selectedIP,
                 isDiscovering, isPortscanning, isProbing, hpc,
                 scanCancel, scanTicker, tickers, loops, switches, portscans, probes,
                 wolPending, clock, clearCount>>

\* The UI goroutine's next emit of a request of several events.
UIEmit ==
  /\ uiPending # <<>> /\ CanEmit
  /\ events' = Append(events, Head(uiPending))
  /\ uiPending' = Tail(uiPending)
  /\ UNCHANGED <<libVars, upserted, engine, portScanner, iface, activeInterface, localIP, devices, selectedIP,
                 isDiscovering, isPortscanning, isProbing, hpc, requests,
                 scanCancel, scanTicker, tickers, loops, switches, portscans, probes,
                 wolPending, clock, clearCount>>

\* The most "Start Scan" presses while the user fills the channel.
MaxScans == 1

\* PortScanModalView, the Esc key: the UI goroutine emits HideView, as often as the
\* user presses it and the channel takes it.
UIEscape ==
  /\ uiPending = <<>> /\ ChannelOpen
  /\ events' = Append(events, Event("HideView", ""))
  /\ UNCHANGED <<libVars, upserted, engine, portScanner, iface, activeInterface, localIP, devices, selectedIP,
                 isDiscovering, isPortscanning, isProbing, hpc, uiPending, requests,
                 scanCancel, scanTicker, tickers, loops, switches, portscans, probes,
                 wolPending, clock, clearCount>>

\* PortScanModalView, "Start Scan", pressed whatever the channel holds.
UIStartScan ==
  /\ uiPending = <<>> /\ ChannelOpen /\ requests < MaxScans
  /\ requests' = requests + 1
  /\ events' = Append(events, Event("PortScanStarted", ""))
  /\ UNCHANGED <<libVars, upserted, engine, portScanner, iface, activeInterface, localIP, devices, selectedIP,
                 isDiscovering, isPortscanning, isProbing, hpc, uiPending,
                 scanCancel, scanTicker, tickers, loops, switches, portscans, probes,
                 wolPending, clock, clearCount>>

\* The user pressing keys of the port scan modal and the handler, with the channel
\* at its capacity.
SinkNext ==
  \/ UIEscape \/ UIStartScan
  \/ HandleHideView \/ HandlePortScanStarted \/ HandlerEmitHide

\* ------------------------------------------------------- the application
AppNext ==
  \/ \E g \in LoopIds : ScanStart(g)
  \/ \E g \in LoopIds : ScanStream(g)
  \/ \E g \in LoopIds : ScanObserve(g)
  \/ \E g \in LoopIds : ScanReturn(g)
  \/ \E g \in LoopIds : InjectBuild(g)
  \/ \E g \in LoopIds : InjectUpsert(g)
  \/ \E g \in LoopIds : ScanStop(g)
  \/ \E g \in LoopIds : ScanTick(g)
  \/ \E i \in SwitchIds : SwitchCheck(i)
  \/ \E i \in SwitchIds : SwitchCancel(i)
  \/ \E i \in SwitchIds : SwitchStopTicker(i)
  \/ \E i \in SwitchIds : SwitchNewInfo(i)
  \/ \E i \in SwitchIds : SwitchRebuild(i)
  \/ \E i \in SwitchIds : SwitchSetState(i)
  \/ \E i \in SwitchIds : SwitchClear(i)
  \/ \E i \in SwitchIds : SwitchRestart(i)
  \/ \E i \in ProcIds : PortscanNoDevice(i)
  \/ \E i \in ProcIds : PortscanBegin(i)
  \/ \E i \in ProcIds : PortscanOpenPort(i)
  \/ \E i \in ProcIds : PortscanStop(i)
  \/ \E i \in ProcIds : ProbeNoDevice(i)
  \/ \E i \in ProcIds : ProbeBegin(i)
  \/ \E i \in ProcIds : ProbeFinish(i)
  \/ \E i \in ProcIds : ProbeStop(i)
  \/ SendWoL
  \/ HandleDeviceSelected \/ HandleHideView \/ HandleDiscovery
  \/ HandlePortScanStarted \/ HandlerEmitHide \/ HandlePortScanStopped
  \/ HandleInterfaceSelected \/ HandleProbeStarted \/ HandleProbeStopped
  \/ HandleWoLRequested
  \/ UISelectDevice \/ UIPortScan \/ UIProbe \/ UIWoL \/ UIInterface \/ UIEmit

\* The application when the user only switches interfaces.
SwitchNext ==
  \/ \E g \in LoopIds : ScanStart(g)
  \/ \E g \in LoopIds : ScanStream(g)
  \/ \E g \in LoopIds : ScanObserve(g)
  \/ \E g \in LoopIds : ScanReturn(g)
  \/ \E g \in LoopIds : InjectBuild(g)
  \/ \E g \in LoopIds : InjectUpsert(g)
  \/ \E g \in LoopIds : ScanStop(g)
  \/ \E g \in LoopIds : ScanTick(g)
  \/ \E i \in SwitchIds : SwitchCheck(i)
  \/ \E i \in SwitchIds : SwitchCancel(i)
  \/ \E i \in SwitchIds : SwitchStopTicker(i)
  \/ \E i \in SwitchIds : SwitchNewInfo(i)
  \/ \E i \in SwitchIds : SwitchRebuild(i)
  \/ \E i \in SwitchIds : SwitchSetState(i)
  \/ \E i \in SwitchIds : SwitchClear(i)
  \/ \E i \in SwitchIds : SwitchRestart(i)
  \/ HandleHideView \/ HandleDiscovery \/ HandleInterfaceSelected
  \/ UIInterface \/ UIEmit


\* The application when the user works on the devices of one interface.
DeviceNext ==
  \/ \E g \in LoopIds : ScanStart(g)
  \/ \E g \in LoopIds : ScanStream(g)
  \/ \E g \in LoopIds : ScanObserve(g)
  \/ \E g \in LoopIds : ScanReturn(g)
  \/ \E g \in LoopIds : InjectBuild(g)
  \/ \E g \in LoopIds : InjectUpsert(g)
  \/ \E g \in LoopIds : ScanStop(g)
  \/ \E g \in LoopIds : ScanTick(g)
  \/ \E i \in ProcIds : PortscanNoDevice(i)
  \/ \E i \in ProcIds : PortscanBegin(i)
  \/ \E i \in ProcIds : PortscanOpenPort(i)
  \/ \E i \in ProcIds : PortscanStop(i)
  \/ \E i \in ProcIds : ProbeNoDevice(i)
  \/ \E i \in ProcIds : ProbeBegin(i)
  \/ \E i \in ProcIds : ProbeFinish(i)
  \/ \E i \in ProcIds : ProbeStop(i)
  \/ SendWoL
  \/ HandleDeviceSelected \/ HandleHideView \/ HandleDiscovery
  \/ HandlePortScanStarted \/ HandlerEmitHide \/ HandlePortScanStopped
  \/ HandleProbeStarted \/ HandleProbeStopped \/ HandleWoLRequested
  \/ UISelectDevice \/ UIPortScan \/ UIProbe \/ UIWoL

\* ------------------------------------------------------------------ strings
\* A Go string is the sequence of its characters, each a one-character string.
UpperChars ==
  <<"A", "B", "C", "D", "E", "F", "G", "H", "I", "J", "K", "L", "M",
    "N", "O", "P", "Q", "R", "S", "T", "U", "V", "W", "X", "Y", "Z">>
LowerChars ==
  <<"a", "b", "c", "d", "e", "f", "g", "h", "i", "j", "k", "l", "m",
    "n", "o", "p", "q", "r", "s", "t", "u", "v", "w", "x", "y", "z">>

LowerChar(c) ==
  IF \E k \in 1..26 : UpperChars[k] = c
  THEN LowerChars[CHOOSE k \in 1..26 : UpperChars[k] = c] ELSE c

\* strings.ToLower
ToLower(s) == [k \in 1..Len(s) |-> LowerChar(s[k])]

\* strings.Contains
Contains(s, sub) ==
  \E k \in 0..(Len(s) - Len(sub)) : \A j \in 1..Len(sub) : s[k + j] = sub[j]

\* strings.Contains(s, kw) for one of the keywords, in their order.
ContainsAny(s, kws) == \E k \in 1..Len(kws) : Contains(s, kws[k])

\* strings.Join
RECURSIVE Join(_, _)
Join(parts, sep) ==
  IF Len(parts) = 0 THEN <<>>
  ELSE IF Len(parts) = 1 THEN parts[1]
  ELSE parts[1] \o sep \o Join(Tail(parts), sep)

\* The orders in which a range over a map with these keys may visit them.
Orders(keys) ==
  {o \in [1..Cardinality(keys) -> keys] :
     \A i, j \in 1..Cardinality(keys) : i # j => o[i] # o[j]}

SetMin(S) == CHOOSE x \in S : \A y \in S : x <= y

\* for _, rule := range rules { for _, kw := range rule.keywords { ... return rule.dtype } }
FirstRule(rules, s) ==
  LET hits == {r \in 1..Len(rules) : ContainsAny(s, rules[r].keywords)} IN
    IF hits = {} THEN "" ELSE rules[SetMin(hits)].dtype

\* ------------------------------------------------------------- fingerprint.go
\* flattenMap: the parts "key value" in the order the range visits the map,
\* joined by a space.
flattenMap(m, order) ==
  IF DOMAIN m = {} THEN <<>>
  ELSE Join([k \in 1..Len(order) |-> order[k] \o <<" ">> \o m[order[k]]], <<" ">>)

\* flattenBanners: the banners in the order the range visits the map, joined by a space.
flattenBanners(m, order) ==
  IF DOMAIN m = {} THEN <<>>
  ELSE Join([k \in 1..Len(order) |-> m[order[k]]], <<" ">>)

ManufacturerRules ==
  <<
   [dtype |-> "Phone/Tablet",
    keywords |->
      <<<<"a", "p", "p", "l", "e">>,
        <<"s", "a", "m", "s", "u", "n", "g">>,
        <<"h", "u", "a", "w", "e", "i">>,
        <<"x", "i", "a", "o", "m", "i">>,
        <<"o", "p", "p", "o">>,
        <<"v", "i", "v", "o">>,
        <<"o", "n", "e", "p", "l", "u", "s">>,
        <<"m", "o", "t", "o", "r", "o", "l", "a">>,
        <<"n", "o", "k", "i", "a">>,
        <<"s", "o", "n", "y", " ", "m", "o", "b", "i", "l", "e">>,
        <<"g", "o", "o", "g", "l", "e">>,
        <<"p", "i", "x", "e", "l">>>>],
   [dtype |-> "Printer",
    keywords |->
      <<<<"c", "a", "n", "o", "n">>,
        <<"e", "p", "s", "o", "n">>,
        <<"b", "r", "o", "t", "h", "e", "r">>,
        <<"l", "e", "x", "m", "a", "r", "k">>,
        <<"x", "e", "r", "o", "x">>,
        <<"r", "i", "c", "o", "h">>,
        <<"k", "y", "o", "c", "e", "r", "a">>,
        <<"k", "o", "n", "i", "c", "a">>>>],
   [dtype |-> "Router/Gateway",
    keywords |->
      <<<<"c", "i", "s", "c", "o">>,
        <<"j", "u", "n", "i", "p", "e", "r">>,
        <<"a", "r", "i", "s", "t", "a">>,
        <<"u", "b", "i", "q", "u", "i", "t", "i">>,
        <<"m", "i", "k", "r", "o", "t", "i", "k">>,
        <<"n", "e", "t", "g", "e", "a", "r">>,
        <<"t", "p", "-", "l", "i", "n", "k">>,
        <<"d", "-", "l", "i", "n", "k">>,
        <<"l", "i", "n", "k", "s", "y", "s">>,
        <<"z", "y", "x", "e", "l">>,
        <<"z", "t", "e">>>>],
   [dtype |-> "NAS/Storage",
    keywords |->
      <<<<"s", "y", "n", "o", "l", "o", "g", "y">>,
        <<"q", "n", "a", "p">>,
        <<"w", "e", "s", "t", "e", "r", "n", " ", "d", "i", "g", "i", "t", "a", "l">>,
        <<"b", "u", "f", "f", "a", "l", "o">>,
        <<"s", "e", "a", "g", "a", "t", "e">>>>],
   [dtype |-> "Smart TV",
    keywords |->
      <<<<"l", "g", " ", "e", "l", "e", "c", "t", "r", "o", "n", "i", "c", "s">>,
        <<"t", "c", "l">>,
        <<"h", "i", "s", "e", "n", "s", "e">>,
        <<"v", "i", "z", "i", "o">>,
        <<"r", "o", "k", "u">>>>],
   [dtype |-> "Game Console",
    keywords |->
      <<<<"n", "i", "n", "t", "e", "n", "d", "o">>,
        <<"v", "a", "l", "v", "e">>>>],
   [dtype |-> "Smart Home",
    keywords |->
      <<<<"e", "s", "p", "r", "e", "s", "s", "i", "f">>,
        <<"t", "u", "y", "a">>,
        <<"s", "h", "e", "l", "l", "y">>,
        <<"s", "o", "n", "o", "f", "f">>,
        <<"w", "e", "m", "o">>,
        <<"r", "i", "n", "g">>,
        <<"n", "e", "s", "t">>,
        <<"a", "m", "a", "z", "o", "n">>,
        <<"e", "c", "h", "o">>>>],
   [dtype |-> "Desktop/Laptop",
    keywords |->
      <<<<"d", "e", "l", "l">>,
        <<"l", "e", "n", "o", "v", "o">>,
        <<"h", "e", "w", "l", "e", "t", "t">>,
        <<"h", "p", " ", "i", "n", "c">>,
        <<"a", "c", "e", "r">>,
        <<"i", "n", "t", "e", "l">>,
        <<"r", "e", "a", "l", "t", "e", "k">>,
        <<"g", "i", "g", "a", "b", "y", "t", "e">>,
        <<"m", "s", "i">>,
        <<"a", "s", "u", "s", "t", "e", "k">>>>],
   [dtype |-> "IP Camera",
    keywords |->
      <<<<"h", "i", "k", "v", "i", "s", "i", "o", "n">>,
        <<"d", "a", "h", "u", "a">>,
        <<"a", "x", "i", "s">>,
        <<"r", "e", "o", "l", "i", "n", "k">>,
        <<"a", "m", "c", "r", "e", "s", "t">>,
        <<"w", "y", "z", "e">>>>]
  >>

fingerprintByManufacturer(mfr) ==
  IF mfr = <<>> THEN "" ELSE FirstRule(ManufacturerRules, mfr)

ServiceRules ==
  <<
   [dtype |-> "Printer",
    keywords |->
      <<<<"p", "r", "i", "n", "t", "e", "r">>,
        <<"_", "i", "p", "p", ".">>,
        <<"_", "p", "d", "l", "-">>>>],
   [dtype |-> "Smart TV",
    keywords |->
      <<<<"c", "h", "r", "o", "m", "e", "c", "a", "s", "t">>,
        <<"g", "o", "o", "g", "l", "e", "c", "a", "s", "t">>,
        <<"s", "m", "a", "r", "t", "t", "v">>,
        <<"r", "o", "k", "u">>,
        <<"a", "i", "r", "p", "l", "a", "y">>,
        <<"_", "r", "a", "o", "p", ".">>>>],
   [dtype |-> "IP Camera",
    keywords |->
      <<<<"c", "a", "m", "e", "r", "a">>,
        <<"i", "p", "c", "a", "m">>>>],
   [dtype |-> "NAS/Storage",
    keywords |->
      <<<<"_", "s", "m", "b", ".">>,
        <<"_", "a", "f", "p", ".">>,
        <<"t", "i", "m", "e", "m", "a", "c", "h", "i", "n", "e">>>>],
   [dtype |-> "Smart Home",
    keywords |->
      <<<<"h", "o", "m", "e", "k", "i", "t">>,
        <<"_", "h", "a", "p", ".">>>>],
   [dtype |-> "Game Console",
    keywords |->
      <<<<"p", "l", "a", "y", "s", "t", "a", "t", "i", "o", "n">>,
        <<"x", "b", "o", "x">>,
        <<"n", "i", "n", "t", "e", "n", "d", "o">>>>]
  >>

fingerprintByServices(extra) ==
  IF extra = <<>> THEN "" ELSE FirstRule(ServiceRules, extra)

fingerprintByPorts(ports, banners, border, httpServer) ==
  LET portSet == {ports[k] : k \in 1..Len(ports)} IN
  IF 9100 \in portSet \/ 631 \in portSet THEN "Printer"
  ELSE IF 554 \in portSet THEN "IP Camera"
  ELSE IF 53 \in portSet \/ 67 \in portSet \/ 68 \in portSet THEN "Router/Gateway"
  ELSE IF 139 \in portSet /\ 445 \in portSet /\ (80 \in portSet \/ 443 \in portSet)
    THEN "NAS/Storage"
  ELSE IF /\ 22 \in portSet /\ (80 \in portSet \/ 443 \in portSet)
          /\ portSet \cap {3306, 5432, 27017, 9200, 6379} # {}
    THEN "Server"
  ELSE IF /\ httpServer # <<>>
          /\ ContainsAny(httpServer, <<<<"p", "r", "i", "n", "t", "e", "r">>, <<"c", "u", "p", "s">>>>)
    THEN "Printer"
  ELSE IF Contains(ToLower(flattenBanners(banners, border)), <<"s", "s", "h">>)
    THEN "Desktop/Laptop"
  ELSE ""

\* Fingerprint with the port and banner stage moved to the front.
FingerprintPortsFirst(mac, manufacturer, openPorts, banners, border, netbiosName, httpServer, extraData, eorder) ==
  LET mfr == ToLower(manufacturer)
      srv == ToLower(httpServer)
      allExtra == ToLower(flattenMap(extraData, eorder))
      byMfr == fingerprintByManufacturer(mfr)
      bySvc == fingerprintByServices(allExtra)
      byPorts == fingerprintByPorts(openPorts, banners, border, srv)
  IN IF byPorts # "" THEN byPorts
     ELSE IF byMfr # "" THEN byMfr
     ELSE IF bySvc # "" THEN bySvc
     ELSE "Unknown"

\* Fingerprint; border and eorder are the orders in which this call's ranges visit
\* the banners and the extra data.
Fingerprint(mac, manufacturer, openPorts, banners, border, netbiosName, httpServer, extraData, eorder) ==
  LET mfr == ToLower(manufacturer)
      srv == ToLower(httpServer)
      allExtra == ToLower(flattenMap(extraData, eorder))
      byMfr == fingerprintByManufacturer(mfr)
      bySvc == fingerprintByServices(allExtra)
      byPorts == fingerprintByPorts(openPorts, banners, border, srv)
  IN IF byMfr # "" THEN byMfr
     ELSE IF bySvc # "" THEN bySvc
     ELSE IF byPorts # "" THEN byPorts
     ELSE "Unknown"

\* --------------------------------------------------------------- os_detect.go
\* osFromSSHBanner with its last test only.
osFromSSHBannerGeneric(banners) ==
  IF 22 \notin DOMAIN banners \/ banners[22] = <<>> THEN ""
  ELSE IF Contains(ToLower(banners[22]), <<"o", "p", "e", "n", "s", "s", "h">>) THEN "Linux"
  ELSE ""

osFromSSHBanner(banners) ==
  IF 22 \notin DOMAIN banners \/ banners[22] = <<>> THEN ""
  ELSE LET b == ToLower(banners[22]) IN
    IF ContainsAny(b,
          <<<<"u", "b", "u", "n", "t", "u">>,
            <<"d", "e", "b", "i", "a", "n">>,
            <<"f", "e", "d", "o", "r", "a">>,
            <<"c", "e", "n", "t", "o", "s">>,
            <<"r", "h", "e", "l">>,
            <<"a", "r", "c", "h">>,
            <<"g", "e", "n", "t", "o", "o">>,
            <<"o", "p", "e", "n", "s", "u", "s", "e">>,
            <<"s", "u", "s", "e">>,
            <<"a", "l", "p", "i", "n", "e">>,
            <<"k", "a", "l", "i">>,
            <<"m", "i", "n", "t">>,
            <<"m", "a", "n", "j", "a", "r", "o">>,
            <<"r", "a", "s", "p", "b", "i", "a", "n">>,
            <<"r", "a", "s", "p", "b", "e", "r", "r", "y">>,
            <<"a", "r", "m", "b", "i", "a", "n">>>>)
      THEN "Linux"
    ELSE IF Contains(b, <<"f", "r", "e", "e", "b", "s", "d">>) THEN "FreeBSD"
    ELSE IF ContainsAny(b, <<<<"m", "i", "c", "r", "o", "s", "o", "f", "t">>, <<"w", "i", "n", "d", "o", "w", "s">>>>)
      THEN "Windows"
    ELSE IF Contains(b, <<"o", "p", "e", "n", "s", "s", "h">>) THEN "Linux"
    ELSE ""

osFromHTTPServer(server) ==
  IF server = <<>> THEN ""
  ELSE LET s == ToLower(server) IN
    IF ContainsAny(s, <<<<"m", "i", "c", "r", "o", "s", "o", "f", "t">>, <<"i", "i", "s">>>>) THEN "Windows"
    ELSE IF ContainsAny(s,
            <<<<"u", "b", "u", "n", "t", "u">>,
              <<"d", "e", "b", "i", "a", "n">>,
              <<"c", "e", "n", "t", "o", "s">>,
              <<"f", "e", "d", "o", "r", "a">>,
              <<"r", "e", "d", " ", "h", "a", "t">>>>)
      THEN "Linux"
    ELSE IF ContainsAny(s, <<<<"d", "a", "r", "w", "i", "n">>, <<"m", "a", "c", "o", "s">>>>) THEN "macOS"
    ELSE IF Contains(s, <<"f", "r", "e", "e", "b", "s", "d">>) THEN "FreeBSD"
    ELSE ""

\* The body of the loop of osFromBanners for one banner, lowered.
BannerOS(b) ==
  IF ContainsAny(b,
        <<<<"w", "i", "n", "d", "o", "w", "s">>,
          <<"m", "i", "c", "r", "o", "s", "o", "f", "t">>,
          <<"w", "i", "n", "3", "2">>,
          <<"w", "i", "n", "6", "4">>>>)
    THEN "Windows"
  ELSE IF ContainsAny(b,
          <<<<"u", "b", "u", "n", "t", "u">>,
            <<"d", "e", "b", "i", "a", "n">>,
            <<"c", "e", "n", "t", "o", "s">>,
            <<"f", "e", "d", "o", "r", "a">>,
            <<"l", "i", "n", "u", "x">>>>)
    THEN "Linux"
  ELSE IF ContainsAny(b,
          <<<<"d", "a", "r", "w", "i", "n">>,
            <<"m", "a", "c", "o", "s">>,
            <<"m", "a", "c", " ", "o", "s">>>>)
    THEN "macOS"
  ELSE IF Contains(b, <<"f", "r", "e", "e", "b", "s", "d">>) THEN "FreeBSD"
  ELSE ""

\* osFromBanners: the range visits the banners in the given order, skips port 22 and
\* returns at the first banner that names an OS.
osFromBanners(banners, order) ==
  LET hits == {k \in 1..Len(order) :
                 order[k] # 22 /\ BannerOS(ToLower(banners[order[k]])) # ""} IN
    IF hits = {} THEN "" ELSE BannerOS(ToLower(banners[order[SetMin(hits)]]))

\* osFromExtraData with the Apple test before the iOS test.
osFromExtraDataAppleFirst(extra, order) ==
  IF DOMAIN extra = {} THEN ""
  ELSE LET combined == ToLower(flattenMap(extra, order)) IN
    IF ContainsAny(combined,
            <<<<"a", "p", "p", "l", "e">>,
              <<"a", "i", "r", "p", "l", "a", "y">>,
              <<"_", "c", "o", "m", "p", "a", "n", "i", "o", "n", "-", "l", "i", "n", "k">>,
              <<"m", "a", "c", "o", "s">>,
              <<"m", "a", "c", " ", "o", "s">>>>)
      THEN "macOS"
    ELSE IF ContainsAny(combined,
        <<<<"i", "p", "h", "o", "n", "e">>,
          <<"i", "p", "a", "d">>,
          <<"i", "p", "o", "d">>>>)
      THEN "iOS"
    ELSE IF Contains(combined, <<"a", "n", "d", "r", "o", "i", "d">>) THEN "Android"
    ELSE IF ContainsAny(combined, <<<<"w", "i", "n", "d", "o", "w", "s">>, <<"m", "i", "c", "r", "o", "s", "o", "f", "t">>>>)
      THEN "Windows"
    ELSE IF ContainsAny(combined,
            <<<<"l", "i", "n", "u", "x">>,
              <<"u", "b", "u", "n", "t", "u">>,
              <<"d", "e", "b", "i", "a", "n">>,
              <<"f", "e", "d", "o", "r", "a">>>>)
      THEN "Linux"
    ELSE ""

osFromExtraData(extra, order) ==
  IF DOMAIN extra = {} THEN ""
  ELSE LET combined == ToLower(flattenMap(extra, order)) IN
    IF ContainsAny(combined,
        <<<<"i", "p", "h", "o", "n", "e">>,
          <<"i", "p", "a", "d">>,
          <<"i", "p", "o", "d">>>>)
      THEN "iOS"
    ELSE IF ContainsAny(combined,
            <<<<"a", "p", "p", "l", "e">>,
              <<"a", "i", "r", "p", "l", "a", "y">>,
              <<"_", "c", "o", "m", "p", "a", "n", "i", "o", "n", "-", "l", "i", "n", "k">>,
              <<"m", "a", "c", "o", "s">>,
              <<"m", "a", "c", " ", "o", "s">>>>)
      THEN "macOS"
    ELSE IF Contains(combined, <<"a", "n", "d", "r", "o", "i", "d">>) THEN "Android"
    ELSE IF ContainsAny(combined, <<<<"w", "i", "n", "d", "o", "w", "s">>, <<"m", "i", "c", "r", "o", "s", "o", "f", "t">>>>)
      THEN "Windows"
    ELSE IF ContainsAny(combined,
            <<<<"l", "i", "n", "u", "x">>,
              <<"u", "b", "u", "n", "t", "u">>,
              <<"d", "e", "b", "i", "a", "n">>,
              <<"f", "e", "d", "o", "r", "a">>>>)
      THEN "Linux"
    ELSE ""

\* osFromPorts with the AFP test before the Windows test.
osFromPortsAFPFirst(ports) ==
  LET portSet == {ports[k] : k \in 1..Len(ports)} IN
  IF 548 \in portSet THEN "macOS"
  ELSE IF 3389 \in portSet \/ (445 \in portSet /\ 5985 \in portSet) THEN "Windows"
  ELSE ""

osFromPorts(ports) ==
  LET portSet == {ports[k] : k \in 1..Len(ports)} IN
  IF 3389 \in portSet \/ (445 \in portSet /\ 5985 \in portSet) THEN "Windows"
  ELSE IF 548 \in portSet THEN "macOS"
  ELSE ""

\* --------------------------------------------------- devices to classify
StrEmpty == <<>>
BannerMicrosoftFTP == <<"2", "2", "0", " ", "M", "i", "c", "r", "o", "s", "o", "f", "t", " ", "F", "T", "P", " ", "S", "e", "r", "v", "i", "c", "e">>
BannerPostfixUbuntu == <<"2", "2", "0", " ", "m", "a", "i", "l", " ", "E", "S", "M", "T", "P", " ", "P", "o", "s", "t", "f", "i", "x", " ", "(", "U", "b", "u", "n", "t", "u", ")">>
BannerOpenSSH == <<"S", "S", "H", "-", "2", ".", "0", "-", "O", "p", "e", "n", "S", "S", "H", "_", "9", ".", "0">>
ServerIIS == <<"M", "i", "c", "r", "o", "s", "o", "f", "t", "-", "I", "I", "S", "/", "1", "0", ".", "0">>
ServerCups == <<"C", "U", "P", "S", "/", "2", ".", "4">>
ServerNginx == <<"n", "g", "i", "n", "x">>
TitleAdmin == <<"A", "d", "m", "i", "n">>
MfrApple == <<"A", "p", "p", "l", "e", ",", " ", "I", "n", "c", ".">>
MfrAcme == <<"A", "c", "m", "e", " ", "C", "o", "r", "p">>
KeyModel == <<"m", "o", "d", "e", "l">>
KeyOs == <<"o", "s">>
KeyService == <<"m", "d", "n", "s", ".", "s", "e", "r", "v", "i", "c", "e">>

\* Maps with their keys listed: a function from its keys.
BannerInputs ==
  {[p \in {} |-> StrEmpty],
   [p \in {22} |-> BannerOpenSSH],
   [p \in {21, 25} |-> IF p = 21 THEN BannerMicrosoftFTP ELSE BannerPostfixUbuntu],
   [p \in {22, 25} |-> IF p = 22 THEN BannerOpenSSH ELSE BannerPostfixUbuntu],
   [p \in {21, 22, 25} |-> IF p = 21 THEN BannerMicrosoftFTP
                           ELSE IF p = 22 THEN BannerOpenSSH ELSE BannerPostfixUbuntu]}

ExtraInputs ==
  {[k \in {} |-> StrEmpty],
   [k \in {KeyService} |-> <<"_", "i", "p", "p", ".", "_", "t", "c", "p">>],
   [k \in {KeyModel, KeyOs} |-> IF k = KeyModel THEN <<"M", "a", "c">> ELSE <<"X">>],
   [k \in {KeyModel, KeyService} |-> IF k = KeyModel THEN <<"P", "i", "x", "e", "l", " ", "7", " ", "A", "n", "d", "r", "o", "i", "d">> ELSE <<"_", "g", "o", "o", "g", "l", "e", "c", "a", "s", "t", ".", "_", "t", "c", "p">>]}

PortInputs == {<<>>, <<22>>, <<22, 80>>, <<21, 80, 22>>, <<3389, 445>>, <<9100>>}

ClassifyInputs ==
  {[manufacturer |-> m, ports |-> p, banners |-> b, httpServer |-> s, extra |-> e] :
     m \in {StrEmpty, MfrApple, MfrAcme}, p \in PortInputs, b \in BannerInputs,
     s \in {StrEmpty, ServerIIS, ServerCups}, e \in ExtraInputs}

\* The verdicts of one pass: each text/port stage of the OS classifier, and Fingerprint.
Verdicts(in, border, eorder) ==
  [ssh |-> osFromSSHBanner(in.banners),
   http |-> osFromHTTPServer(in.httpServer),
   banners |-> osFromBanners(in.banners, border),
   extra |-> osFromExtraData(in.extra, eorder),
   ports |-> osFromPorts(in.ports),
   deviceType |-> Fingerprint(StrEmpty, in.manufacturer, in.ports, in.banners, border,
                              StrEmpty, in.httpServer, in.extra, eorder)]

NoVerdicts ==
  [ssh |-> "", http |-> "", banners |-> "", extra |-> "", ports |-> "", deviceType |-> ""]

ClassifyIdle ==
  [pc |-> "off", first |-> NoVerdicts, second |-> NoVerdicts,
   in |-> [manufacturer |-> StrEmpty, ports |-> <<>>, banners |-> [p \in {} |-> StrEmpty],
          httpServer |-> StrEmpty, extra |-> [k \in {} |-> StrEmpty]]]

\* The classifiers are called on a device,
ClassifyOnce ==
  /\ classify.pc = "input"
  /\ \E border \in Orders(DOMAIN classify.in.banners), eorder \in Orders(DOMAIN classify.in.extra) :
       classify' = [classify EXCEPT !.pc = "once", !.first = Verdicts(classify.in, border, eorder)]
  /\ UNCHANGED <<appVars, runAll, call>>

\* and called again with equal arguments.
ClassifyAgain ==
  /\ classify.pc = "once"
  /\ \E border \in Orders(DOMAIN classify.in.banners), eorder \in Orders(DOMAIN classify.in.extra) :
       classify' = [classify EXCEPT !.pc = "twice", !.second = Verdicts(classify.in, border, eorder)]
  /\ UNCHANGED <<appVars, runAll, call>>

ClassifyNext == ClassifyOnce \/ ClassifyAgain

\* -------------------------------------------------------------- Prober.RunAll
isHTTPPort(port) == port \in {80, 443, 8080, 8443, 9090}

AppendMissing(ports, p) ==
  IF \E k \in 1..Len(ports) : ports[k] = p THEN ports ELSE Append(ports, p)

\* TCPPing, lines 130-144: the known ports, then the common ports not among them.
PingPorts(knownPorts) ==
  AppendMissing(AppendMissing(AppendMissing(AppendMissing(knownPorts, 80), 443), 22), 135)

\* What the services of the probed host send.
BannerOf(port) ==
  IF port = 21 THEN BannerMicrosoftFTP
  ELSE IF port = 22 THEN BannerOpenSSH ELSE BannerPostfixUbuntu

\* (title, server) of a FetchHTTPInfo that reached the host.
HTTPAnswers ==
  {[title |-> StrEmpty, server |-> StrEmpty],
   [title |-> TitleAdmin, server |-> ServerNginx],
   [title |-> StrEmpty, server |-> ServerCups]}

\* Lines 94-103: the composite banner of an HTTP port.
CompositeBanner(title, server) ==
  Join((IF server # <<>> THEN <<server>> ELSE <<>>)
         \o (IF title # <<>> THEN <<(<<"\"">> \o title \o <<"\"">>)>> ELSE <<>>),
       <<" ", "|", " ">>)

EmptyProbeResult ==
  [Latency |-> 0, ReverseDNS |-> "", Banners |-> [p \in {} |-> StrEmpty],
   HTTPTitle |-> StrEmpty, HTTPServer |-> StrEmpty, DeviceType |-> "", NetBIOSName |-> ""]

RunAllInputs ==
  {[openPorts |-> p, manufacturer |-> m, extraData |-> e] :
     p \in {<<>>, <<22>>, <<22, 80>>, <<21, 80, 22>>},
     m \in {StrEmpty, MfrAcme},
     e \in {[k \in {} |-> StrEmpty], [k \in {KeyService} |-> <<"_", "i", "p", "p", ".">>]}}

RunAllIdle ==
  [pc |-> "off", ctx |-> "live", idx |-> 0, result |-> EmptyProbeResult, ops |-> <<>>,
   in |-> [openPorts |-> <<>>, manufacturer |-> StrEmpty, extraData |-> [k \in {} |-> StrEmpty]]]

\* A sub-probe is called: late, when the context was done by then; net, when the
\* call goes to the network.
Op(name, port, net) == [op |-> name, port |-> port, late |-> runAll.ctx = "done", net |-> net]

\* The context of the call is done: its deadline passed, or it was cancelled.
CtxDone ==
  /\ runAll.pc \notin {"off", "done"} /\ runAll.ctx = "live"
  /\ runAll' = [runAll EXCEPT !.ctx = "done"]
  /\ UNCHANGED <<appVars, classify, call>>

\* Line 48: ReverseDNS(ip), net.LookupAddr.
ReverseDNS ==
  /\ runAll.pc = "rdns"
  /\ \E name \in {"", "host.lan"} :
       runAll' = [runAll EXCEPT !.pc = "ping", !.idx = 0, !.result.ReverseDNS = name,
                                !.ops = Append(@, Op("ReverseDNS", 0, TRUE))]
  /\ UNCHANGED <<appVars, classify, call>>

\* TCPPing, lines 146-161: the context is live, dial the next port; the first
\* handshake that succeeds is the latency.
TCPPingDial ==
  /\ runAll.pc = "ping" /\ runAll.ctx = "live"
  /\ runAll.idx < Len(PingPorts(runAll.in.openPorts))
  /\ \E ok \in BOOLEAN :
       runAll' = [runAll EXCEPT !.ops = Append(@, Op("TCPPing", PingPorts(runAll.in.openPorts)[runAll.idx + 1], TRUE)),
                                !.pc = IF ok THEN "nbstat" ELSE "ping",
                                !.idx = IF ok THEN 0 ELSE @ + 1,
                                !.result.Latency = IF ok THEN 1 ELSE 0]
  /\ UNCHANGED <<appVars, classify, call>>

\* TCPPing, lines 147-151 and 162: the context is done or no port is left; return 0.
TCPPingReturn ==
  /\ runAll.pc = "ping"
  /\ runAll.ctx = "done" \/ runAll.idx = Len(PingPorts(runAll.in.openPorts))
  /\ runAll' = [runAll EXCEPT !.pc = "nbstat", !.idx = 0, !.result.Latency = 0]
  /\ UNCHANGED <<appVars, classify, call>>

\* Line 56: QueryNetBIOS(ip, p.timeout). It takes no context: the UDP query is
\* sent and the answer awaited whatever the context's state.
QueryNetBIOS ==
  /\ runAll.pc = "nbstat"
  /\ \E name \in {"", "WORKSTATION"} :
       runAll' = [runAll EXCEPT !.pc = "banner", !.idx = 0, !.result.NetBIOSName = name,
                                !.ops = Append(@, Op("QueryNetBIOS", 137, TRUE))]
  /\ UNCHANGED <<appVars, classify, call>>

\* Lines 61-74, one iteration of the banner loop. The break of lines 62-66 leaves
\* the select, not the loop: a non-HTTP port gets its GrabBanner call, which fails
\* at once on a context that is done.
GrabBanner ==
  /\ runAll.pc = "banner" /\ runAll.idx < Len(runAll.in.openPorts)
  /\ LET port == runAll.in.openPorts[runAll.idx + 1] IN
       IF isHTTPPort(port)
       THEN runAll' = [runAll EXCEPT !.idx = @ + 1]
       ELSE \E banner \in (IF runAll.ctx = "done" THEN {StrEmpty} ELSE {StrEmpty, BannerOf(port)}) :
              runAll' = [runAll EXCEPT
                !.idx = @ + 1,
                !.ops = Append(@, Op("GrabBanner", port, runAll.ctx = "live")),
                !.result.Banners =
                   IF banner = StrEmpty THEN @
                   ELSE [p \in DOMAIN @ \cup {port} |-> IF p = port THEN banner ELSE @[p]]]
  /\ UNCHANGED <<appVars, classify, call>>

\* The banner loop is over.
BannerLoopEnd ==
  /\ runAll.pc = "banner" /\ runAll.idx = Len(runAll.in.openPorts)
  /\ runAll' = [runAll EXCEPT !.pc = "http", !.idx = 0]
  /\ UNCHANGED <<appVars, classify, call>>

\* Lines 76-104, one iteration of the HTTP loop, with the same break.
FetchHTTPInfo ==
  /\ runAll.pc = "http" /\ runAll.idx < Len(runAll.in.openPorts)
  /\ LET port == runAll.in.openPorts[runAll.idx + 1] IN
       IF ~isHTTPPort(port)
       THEN runAll' = [runAll EXCEPT !.idx = @ + 1]
       ELSE \E a \in (IF runAll.ctx = "done" THEN {[title |-> StrEmpty, server |-> StrEmpty]}
                      ELSE HTTPAnswers) :
              runAll' = [runAll EXCEPT
                !.idx = @ + 1,
                !.ops = Append(@, Op("FetchHTTPInfo", port, runAll.ctx = "live")),
                !.result.HTTPTitle = IF a.title # StrEmpty /\ @ = StrEmpty THEN a.title ELSE @,
                !.result.HTTPServer = IF a.server # StrEmpty /\ @ = StrEmpty THEN a.server ELSE @,
                !.result.Banners =
                   IF a.title = StrEmpty /\ a.server = StrEmpty THEN @
                   ELSE [p \in DOMAIN @ \cup {port} |->
                           IF p = port THEN CompositeBanner(a.title, a.server) ELSE @[p]]]
  /\ UNCHANGED <<appVars, classify, call>>

\* The HTTP loop is over.
HTTPLoopEnd ==
  /\ runAll.pc = "http" /\ runAll.idx = Len(runAll.in.openPorts)
  /\ runAll' = [runAll EXCEPT !.pc = "fingerprint", !.idx = 0]
  /\ UNCHANGED <<appVars, classify, call>>

\* Lines 107-111: Fingerprint on what was gathered; return the result.
RunAllReturn ==
  /\ runAll.pc = "fingerprint"
  /\ \E border \in Orders(DOMAIN runAll.result.Banners), eorder \in Orders(DOMAIN runAll.in.extraData) :
       runAll' = [runAll EXCEPT
         !.pc = "done",
         !.result.DeviceType =
            Fingerprint(StrEmpty, runAll.in.manufacturer, runAll.in.openPorts,
                        runAll.result.Banners, border, runAll.result.NetBIOSName,
                        runAll.result.HTTPServer, runAll.in.extraData, eorder)]
  /\ UNCHANGED <<appVars, classify, call>>

RunAllNext ==
  \/ CtxDone \/ ReverseDNS \/ TCPPingDial \/ TCPPingReturn \/ QueryNetBIOS
  \/ GrabBanner \/ BannerLoopEnd \/ FetchHTTPInfo \/ HTTPLoopEnd \/ RunAllReturn

\* ------------------------------------------------------- function calls
\* No function is being called.
CallIdle == [pc |-> "off", fn |-> "", in |-> <<>>, out |-> <<>>]

\* A function is about to be called on an input.
Calls(fn, inputs) == {[pc |-> "call", fn |-> fn, in |-> i, out |-> <<>>] : i \in inputs}

\* ------------------------------------------------------ os_detect.go, DetectOS
\* classifyTTL with the first range closed one short.
classifyTTLShort(ttl) ==
  IF ttl <= 0 THEN ""
  ELSE IF ttl < 64 THEN "Linux"
  ELSE IF ttl <= 128 THEN "Windows"
  ELSE "Linux"

\* classifyTTL maps a received TTL to an OS guess.
classifyTTL(ttl) ==
  IF ttl <= 0 THEN ""
  ELSE IF ttl <= 64 THEN "Linux"
  ELSE IF ttl <= 128 THEN "Windows"
  ELSE "Linux"

\* The ports osFromTTL dials: the known ports, then 80, 443, 22 where missing.
TTLPorts(knownPorts) == AppendMissing(AppendMissing(AppendMissing(knownPorts, 80), 443), 22)

\* getTTL of the k-th dial: what the network gives, -1 on any failure.
getTTL(net, k) == IF k = 1 THEN net.first ELSE net.rest

\* osFromTTL: ctx is the number of the dial before which the context is found done
\* (0: never).  The loop returns "" there, skips a dial without a TTL, and classifies
\* the first TTL it reads.
osFromTTL(ctx, knownPorts, net) ==
  LET ports == TTLPorts(knownPorts)
      stops == {k \in 1..Len(ports) : (ctx # 0 /\ k >= ctx) \/ getTTL(net, k) > 0}
  IN IF stops = {} THEN ""
     ELSE IF ctx # 0 /\ SetMin(stops) >= ctx THEN ""
     ELSE classifyTTL(getTTL(net, SetMin(stops)))

\* DetectOS with the port heuristics moved to the front.
DetectOSPortsFirst(ctx, net, openPorts, banners, border, httpServer, netbiosName, extraData, eorder) ==
  LET ssh == osFromSSHBanner(banners)
      http == osFromHTTPServer(httpServer)
      other == osFromBanners(banners, border)
      extra == osFromExtraData(extraData, eorder)
      ttl == osFromTTL(ctx, openPorts, net)
      ports == osFromPorts(openPorts)
  IN IF ports # "" THEN ports
     ELSE IF ssh # "" THEN ssh
     ELSE IF http # "" THEN http
     ELSE IF other # "" THEN other
     ELSE IF extra # "" THEN extra
     ELSE IF netbiosName # <<>> THEN "Windows"
     ELSE IF ttl # "" THEN ttl
     ELSE ""

\* DetectOS; border and eorder are the orders in which this call's ranges visit the
\* banners and the extra data, ctx and net the context and the network of its dials.
DetectOS(ctx, net, openPorts, banners, border, httpServer, netbiosName, extraData, eorder) ==
  LET ssh == osFromSSHBanner(banners)
      http == osFromHTTPServer(httpServer)
      other == osFromBanners(banners, border)
      extra == osFromExtraData(extraData, eorder)
      ttl == osFromTTL(ctx, openPorts, net)
      ports == osFromPorts(openPorts)
  IN IF ssh # "" THEN ssh
     ELSE IF http # "" THEN http
     ELSE IF other # "" THEN other
     ELSE IF extra # "" THEN extra
     ELSE IF netbiosName # <<>> THEN "Windows"
     ELSE IF ttl # "" THEN ttl
     ELSE IF ports # "" THEN ports
     ELSE ""

BannerOpenSSHUbuntu == <<"S", "S", "H", "-", "2", ".", "0", "-", "O", "p", "e", "n", "S", "S", "H", "_", "8", ".", "6", " ", "U", "b", "u", "n", "t", "u">>
NameDesktop == <<"D", "E", "S", "K", "T", "O", "P", "-", "A", "B", "C">>

\* The hosts DetectOS is called on.
DetectOSInputs ==
  {[ports |-> p, banners |-> b, httpServer |-> s, netbiosName |-> n, extra |-> e] :
     p \in {<<>>, <<22, 3389>>, <<548>>},
     b \in {[q \in {} |-> StrEmpty],
            [q \in {22} |-> BannerOpenSSHUbuntu],
            [q \in {21, 25} |-> IF q = 21 THEN BannerMicrosoftFTP ELSE BannerPostfixUbuntu]},
     s \in {StrEmpty, ServerIIS},
     n \in {StrEmpty, NameDesktop},
     e \in {[k \in {} |-> StrEmpty],
            [k \in {KeyModel, KeyOs} |-> IF k = KeyModel THEN <<"M", "a", "c">> ELSE <<"X">>]}}

\* What the dials of one osFromTTL read: the first, and every later one.
TTLNets == {[first |-> f, rest |-> r] : f \in {-1, 0, 64, 120}, r \in {-1, 200}}

\* The context is never done, or found done before the first or the second dial.
TTLContexts == {0, 1, 2}

\* One call of DetectOS; the orders, the context and the network of the call are kept
\* with its result.
DetectOSCall ==
  /\ call.pc = "call" /\ call.fn = "DetectOS"
  /\ \E border \in Orders(DOMAIN call.in.banners), eorder \in Orders(DOMAIN call.in.extra),
        ctx \in TTLContexts, net \in TTLNets :
       call' = [call EXCEPT !.pc = "done",
                  !.out = [os |-> DetectOS(ctx, net, call.in.ports, call.in.banners, border,
                                           call.in.httpServer, call.in.netbiosName,
                                           call.in.extra, eorder),
                           border |-> border, eorder |-> eorder, ctx |-> ctx, net |-> net]]
  /\ UNCHANGED <<appVars, runAll, classify>>

\* ---------------------------------------------------- os_detect.go, classifyTTL
\* The TTLs put to classifyTTL are -MaxTTL..MaxTTL; a TTL read from an IP header
\* is at most 255.
MaxTTL == 260

\* One call of classifyTTL.
ClassifyTTLCall ==
  /\ call.pc = "call" /\ call.fn = "classifyTTL"
  /\ call' = [call EXCEPT !.pc = "done", !.out = classifyTTL(call.in)]
  /\ UNCHANGED <<appVars, runAll, classify>>

\* --------------------------------------------------- fingerprint.go, Fingerprint
MfrCanon == <<"C", "a", "n", "o", "n", " ", "I", "n", "c", ".">>
MfrCanonUpper == <<"C", "A", "N", "O", "N", " ", "I", "N", "C", ".">>
MfrGoogleNest == <<"G", "o", "o", "g", "l", "e", " ", "N", "e", "s", "t", " ", "L", "a", "b", "s">>

\* The devices Fingerprint is called on.
FingerprintInputs ==
  {[manufacturer |-> m, ports |-> p, banners |-> b, httpServer |-> s, extra |-> e] :
     m \in {StrEmpty, MfrCanon, MfrCanonUpper, MfrGoogleNest, MfrAcme},
     p \in {<<>>, <<554>>, <<22, 80>>, <<3389, 445>>},
     b \in {[q \in {} |-> StrEmpty], [q \in {22} |-> BannerOpenSSH]},
     s \in {StrEmpty, ServerCups},
     e \in ExtraInputs \ {[k \in {KeyModel, KeyOs} |-> IF k = KeyModel THEN <<"M", "a", "c">> ELSE <<"X">>]}}

\* One call of Fingerprint; the orders of its ranges are kept with its result.
FingerprintCall ==
  /\ call.pc = "call" /\ call.fn = "Fingerprint"
  /\ \E border \in Orders(DOMAIN call.in.banners), eorder \in Orders(DOMAIN call.in.extra) :
       call' = [call EXCEPT !.pc = "done",
                  !.out = [deviceType |-> Fingerprint(StrEmpty, call.in.manufacturer,
                                            call.in.ports, call.in.banners, border, StrEmpty,
                                            call.in.httpServer, call.in.extra, eorder),
                           border |-> border, eorder |-> eorder]]
  /\ UNCHANGED <<appVars, runAll, classify>>

\* -------------------------------------------------------------- sanitizeBanner
\* A raw banner is the sequence of the runes that ranging over it yields; a byte
\* that is no valid UTF-8 is yielded as U+FFFD.
\* strings.IndexAny(raw, "\r\n") and the cut at it.
FirstLine(raw) ==
  LET ends == {k \in 1..Len(raw) : raw[k] \in {13, 10}} IN
    IF ends = {} THEN raw ELSE SubSeq(raw, 1, SetMin(ends) - 1)

\* The runes r >= 32 && r < 127, in their order.
Printable(raw) == SelectSeq(raw, LAMBDA r : r >= 32 /\ r < 127)

\* unicode.IsSpace for the runes below U+0100.
IsSpace(r) == r \in {9, 10, 11, 12, 13, 32, 133, 160}

\* strings.TrimSpace
TrimSpace(s) ==
  LET keep == {k \in 1..Len(s) : ~IsSpace(s[k])} IN
    IF keep = {} THEN <<>>
    ELSE SubSeq(s, SetMin(keep), CHOOSE k \in keep : \A j \in keep : j <= k)

Ellipsis == <<46, 46, 46>>

\* sanitizeBanner with the cut one byte late.
sanitizeBannerLate(raw) ==
  LET result == TrimSpace(Printable(FirstLine(raw))) IN
    IF Len(result) > 120 THEN SubSeq(result, 1, 118) \o Ellipsis ELSE result

\* sanitizeBanner keeps the first line, strips the runes outside 32..126, trims, and
\* cuts a result longer than 120 to its first 117 bytes and "...".
sanitizeBanner(raw) ==
  LET result == TrimSpace(Printable(FirstLine(raw))) IN
    IF Len(result) > 120 THEN SubSeq(result, 1, 117) \o Ellipsis ELSE result

\* The longest run of letters in a raw banner put to sanitizeBanner.
MaxRawLen == 124

\* n times the rune r.
Repeat(r, n) == [k \in 1..n |-> r]

\* Raw banners: what one read of up to 1024 bytes returns.  A head (nothing, a space,
\* a tab, a two-byte letter), a run of the letter A, and a tail (nothing, "...", CR LF,
\* LF and a second line, a space, DEL, a space and BEL, " ..").
RawBanners ==
  {h \o Repeat(65, n) \o t :
     h \in {<<>>, <<32>>, <<9>>, <<233>>},
     n \in 0..MaxRawLen,
     t \in {<<>>, Ellipsis, <<13, 10>>, <<10, 66>>, <<32>>, <<127>>, <<32, 7>>, <<32, 46, 46>>}}

\* One call of sanitizeBanner.
SanitizeBannerCall ==
  /\ call.pc = "call" /\ call.fn = "sanitizeBanner"
  /\ call' = [call EXCEPT !.pc = "done", !.out = sanitizeBanner(call.in)]
  /\ UNCHANGED <<appVars, runAll, classify>>

\* ------------------------------------------------------------ probe.SendWoL
HexLower == <<"0", "1", "2", "3", "4", "5", "6", "7", "8", "9", "a", "b", "c", "d", "e", "f">>
HexUpper == <<"0", "1", "2", "3", "4", "5", "6", "7", "8", "9", "A", "B", "C", "D", "E", "F">>

IsHex(c) == \E d \in 1..16 : HexLower[d] = c \/ HexUpper[d] = c
HexVal(c) == (CHOOSE d \in 1..16 : HexLower[d] = c \/ HexUpper[d] = c) - 1

\* net.xtoi2 on s[x:] (x counts from 1): two hex digits, followed by e or by the end.
xtoi2ok(s, x, e) ==
  /\ x + 1 <= Len(s) /\ IsHex(s[x]) /\ IsHex(s[x + 1])
  /\ x + 2 <= Len(s) => s[x + 2] = e
xtoi2(s, x) == 16 * HexVal(s[x]) + HexVal(s[x + 1])

\* net.ParseMAC: 6, 8 or 20 bytes written xx:xx:.., xx-xx-.. or xxxx.xxxx...
ParseMAC(s) ==
  LET bad == [ok |-> FALSE, hw |-> <<>>] IN
  IF Len(s) < 14 THEN bad
  ELSE IF s[3] = ":" \/ s[3] = "-" THEN
    LET n == (Len(s) + 1) \div 3 IN
      IF (Len(s) + 1) % 3 # 0 \/ n \notin {6, 8, 20} THEN bad
      ELSE IF \E i \in 0..(n - 1) : ~xtoi2ok(s, 3 * i + 1, s[3]) THEN bad
      ELSE [ok |-> TRUE, hw |-> [i \in 1..n |-> xtoi2(s, 3 * (i - 1) + 1)]]
  ELSE IF s[5] = "." THEN
    LET n == (2 * (Len(s) + 1)) \div 5 IN
      IF (Len(s) + 1) % 5 # 0 \/ n \notin {6, 8, 20} THEN bad
      ELSE IF \E g \in 0..((n \div 2) - 1) :
                \/ ~(IsHex(s[5 * g + 1]) /\ IsHex(s[5 * g + 2]))
                \/ ~xtoi2ok(s, 5 * g + 3, ".") THEN bad
      ELSE [ok |-> TRUE,
            hw |-> [i \in 1..n |-> xtoi2(s, 5 * ((i - 1) \div 2) + 1 + 2 * ((i - 1) % 2))]]
  ELSE bad

\* The magic packet with the MAC copied 15 times.
magicPacketShort(mac) ==
  [k \in 1..102 |-> IF k <= 6 THEN 255 ELSE IF k <= 96 THEN mac[((k - 7) % 6) + 1] ELSE 0]

\* Lines 19-26: var packet [102]byte, six bytes 0xFF, then 16 times the MAC.
magicPacket(mac) ==
  [k \in 1..102 |-> IF k <= 6 THEN 255 ELSE mac[((k - 7) % 6) + 1]]

\* SendWoL of package probe; dial and write say whether net.Dial and conn.Write
\* succeed.  The result is the error (empty: nil) and the datagrams sent.
probeSendWoL(macStr, broadcastAddr, dial, write) ==
  LET mac == ParseMAC(macStr) IN
    IF ~mac.ok THEN [err |-> "invalid MAC address", sent |-> <<>>]
    ELSE IF Len(mac.hw) # 6 THEN [err |-> "MAC address must be 6 bytes", sent |-> <<>>]
    ELSE IF ~dial THEN [err |-> "dial broadcast", sent |-> <<>>]
    ELSE IF ~write THEN [err |-> "send WoL packet", sent |-> <<>>]
    ELSE [err |-> "", sent |-> <<[addr |-> broadcastAddr, port |-> 9, data |-> magicPacket(mac.hw)]>>]

\* The hardware addresses written out for SendWoL: n bytes b, b + step, ..
MacBytes ==
  {[k \in 1..n |-> (b + (k - 1) * step) % 256] :
     n \in {5, 6, 7, 8, 20}, b \in {0, 222, 255}, step \in {0, 17}}

\* xx:xx:.. or xx-xx-.. in the digits given.
FormatMAC(bytes, sep, digits) ==
  Join([k \in 1..Len(bytes) |-> <<digits[(bytes[k] \div 16) + 1], digits[(bytes[k] % 16) + 1]>>], <<sep>>)

\* xxxx.xxxx.. of an even number of bytes.
FormatMACDots(bytes) ==
  Join([g \in 1..(Len(bytes) \div 2) |->
          <<HexLower[(bytes[2 * g - 1] \div 16) + 1], HexLower[(bytes[2 * g - 1] % 16) + 1],
            HexLower[(bytes[2 * g] \div 16) + 1], HexLower[(bytes[2 * g] % 16) + 1]>>], <<".">>)

\* The MAC strings put to SendWoL, each with the bytes it spells (none: no MAC).
MacInputs ==
  {[macStr |-> FormatMAC(m, sep, digits), bytes |-> IF Len(m) \in {6, 8, 20} THEN m ELSE <<>>] :
     m \in MacBytes, sep \in {":", "-"}, digits \in {HexLower, HexUpper}}
  \cup {[macStr |-> FormatMACDots(m), bytes |-> m] : m \in {b \in MacBytes : Len(b) % 2 = 0}}
  \cup {[macStr |-> s, bytes |-> <<>>] :
          s \in {StrEmpty, <<"d", "e", ":", "a", "d", ":", "b", "e", ":", "e", "f", ":", "0", "0", ":", "0", "g">>, <<"d", "e", ":", "a", "d", "-", "b", "e", ":", "e", "f", ":", "0", "0", ":", "0", "1">>, <<"d", "e", "a", "d", ":", "b", "e", "e", "f", ":", "0", "0", "0", "1">>,
                 <<"d", "e", ":", "a", "d", ":", "b", "e", ":", "e", "f", ":", "0", "0", ":", "0", "1", ":">>, <<"d", ":", "e", ":", "a", ":", "d", ":", "b", ":", "e", ":", "e", ":", "f", ":", "0", ":", "0", ":", "0", ":", "1">>, <<"d", "e", "a", "d", "b", "e", "e", "f", "0", "0", "0", "1", "x", "x">>}}

BroadcastString == <<"1", "9", "2", ".", "1", "6", "8", ".", "1", ".", "2", "5", "5">>

\* One call of SendWoL.
SendWoLCall ==
  /\ call.pc = "call" /\ call.fn = "SendWoL"
  /\ \E dial \in BOOLEAN, write \in BOOLEAN :
       call' = [call EXCEPT !.pc = "done",
                  !.out = probeSendWoL(call.in.macStr, BroadcastString, dial, write)]
  /\ UNCHANGED <<appVars, runAll, classify>>

\* --------------------------------------------------------- probe.BroadcastAddr
\* Bytes are 0..255; | and ^ on them.
Bit(b, k) == (b \div (2 ^ k)) % 2
ByteOr(a, b) ==
  LET bit(k) == IF Bit(a, k) = 1 \/ Bit(b, k) = 1 THEN 2 ^ k ELSE 0 IN
    bit(0) + bit(1) + bit(2) + bit(3) + bit(4) + bit(5) + bit(6) + bit(7)
ByteAnd(a, b) ==
  LET bit(k) == IF Bit(a, k) = 1 /\ Bit(b, k) = 1 THEN 2 ^ k ELSE 0 IN
    bit(0) + bit(1) + bit(2) + bit(3) + bit(4) + bit(5) + bit(6) + bit(7)
ByteNot(a) == 255 - a

\* net.IP.To4: the 4 bytes of a 4-byte address or of a 16-byte IPv4-mapped one,
\* else nil (the empty sequence).
To4(ip) ==
  IF Len(ip) = 4 THEN ip
  ELSE IF /\ Len(ip) = 16 /\ \A k \in 1..10 : ip[k] = 0
          /\ ip[11] = 255 /\ ip[12] = 255 THEN SubSeq(ip, 13, 16)
  ELSE <<>>

\* net.CIDRMask(ones, 32)
CIDRMask(ones) ==
  [i \in 1..4 |-> IF ones >= 8 * i THEN 255
                  ELSE IF ones <= 8 * (i - 1) THEN 0
                  ELSE 256 - 2 ^ (8 * i - ones)]

\* BroadcastAddr with & in the place of |.
BroadcastAddrAnd(ipNet) ==
  LET ip == To4(ipNet.IP) IN
    IF ip = <<>> THEN <<>>
    ELSE [i \in 1..4 |-> ByteAnd(ip[i], ByteNot(ipNet.Mask[i]))]

\* BroadcastAddr: nil for an address that is not IPv4, else ip[i] | ^mask[i].
BroadcastAddr(ipNet) ==
  LET ip == To4(ipNet.IP) IN
    IF ip = <<>> THEN <<>>
    ELSE [i \in 1..4 |-> ByteOr(ip[i], ByteNot(ipNet.Mask[i]))]

\* The 16-byte form of an IPv4 address, as net.IPv4 builds it.
IPv4Mapped(ip) == <<0, 0, 0, 0, 0, 0, 0, 0, 0, 0, 255, 255>> \o ip

\* The subnets put to BroadcastAddr: IPv4 addresses in either form with every prefix
\* length, as net.Interface.Addrs gives them, and one IPv6 subnet.
SubnetInputs ==
  {[IP |-> form, Mask |-> CIDRMask(ones), ones |-> ones] :
     form \in UNION {{ip, IPv4Mapped(ip)} :
                       ip \in {<<192, 168, 1, 37>>, <<10, 0, 0, 1>>, <<172, 16, 254, 200>>,
                               <<0, 0, 0, 0>>, <<255, 255, 255, 255>>}},
     ones \in 0..32}
  \cup {[IP |-> <<254, 128, 0, 0, 0, 0, 0, 0, 0, 0, 0, 0, 0, 0, 0, 1>>,
         Mask |-> <<255, 255, 255, 255, 255, 255, 255, 255, 0, 0, 0, 0, 0, 0, 0, 0>>,
         ones |-> 64]}

\* One call of BroadcastAddr.
BroadcastAddrCall ==
  /\ call.pc = "call" /\ call.fn = "BroadcastAddr"
  /\ call' = [call EXCEPT !.pc = "done", !.out = BroadcastAddr(call.in)]
  /\ UNCHANGED <<appVars, runAll, classify>>

\* -------------------------------------------------------- parseNBSTATResponse
\* data[pos] of the code, whose positions count from 0.
At(data, pos) == data[pos + 1]

\* for pos < len(data) && data[pos] != 0x00 { pos += int(data[pos]) + 1 }
RECURSIVE SkipLabels(_, _)
SkipLabels(data, pos) ==
  IF pos < Len(data) /\ At(data, pos) # 0
  THEN SkipLabels(data, pos + At(data, pos) + 1)
  ELSE pos

\* strings.TrimRight(s, " \x00")
TrimRight(s) ==
  LET keep == {k \in 1..Len(s) : s[k] \notin {32, 0}} IN
    IF keep = {} THEN <<>> ELSE SubSeq(s, 1, CHOOSE k \in keep : \A j \in keep : j <= k)

\* Lines 121-133: the entries from pos on, at most numNames of them and only those
\* that lie whole within the data; the first unique one with suffix 0x00 and a name.
RECURSIVE NameEntries(_, _, _)
NameEntries(data, pos, numNames) ==
  IF numNames = 0 \/ pos + 18 > Len(data) THEN <<>>
  ELSE LET name == TrimRight(SubSeq(data, pos + 1, pos + 15))
           suffix == At(data, pos + 15)
           isGroup == At(data, pos + 16) >= 128
       IN IF suffix = 0 /\ ~isGroup /\ name # <<>> THEN name
          ELSE NameEntries(data, pos + 18, numNames - 1)

\* The position after the answer name, lines 100-108.
AfterAnswerName(data, pos) ==
  IF At(data, pos) >= 192 THEN pos + 2 ELSE SkipLabels(data, pos) + 1

\* parseNBSTATResponse
parseNBSTATResponse(data) ==
  IF Len(data) < 57 THEN <<>>
  ELSE LET q == SkipLabels(data, 12) + 1 + 4 IN
    IF q >= Len(data) THEN <<>>
    ELSE LET n == AfterAnswerName(data, q) + 10 IN
      IF n >= Len(data) THEN <<>>
      ELSE IF At(data, n) = 0 \/ n + 1 + 18 > Len(data) THEN <<>>
      ELSE NameEntries(data, n + 1, At(data, n))

\* A name padded with spaces to 15 bytes.
Pad15(name) == name \o [k \in 1..(15 - Len(name)) |-> 32]

NameWorkstation == <<87, 79, 82, 75, 83, 84, 65, 84, 73, 79, 78>>
NameWorkgroup == <<87, 79, 82, 75, 71, 82, 79, 85, 80>>

\* The entries of a node status response: a unique workstation name, a group name
\* with suffix 0x00 and with suffix 0x1E, a unique server name (suffix 0x20), and a
\* unique entry whose name is blank.
NodeNames ==
  {[name |-> NameWorkstation, suffix |-> 0, flags |-> <<4, 0>>],
   [name |-> NameWorkgroup, suffix |-> 0, flags |-> <<132, 0>>],
   [name |-> NameWorkgroup, suffix |-> 30, flags |-> <<132, 0>>],
   [name |-> NameWorkstation, suffix |-> 32, flags |-> <<4, 0>>],
   [name |-> <<>>, suffix |-> 0, flags |-> <<4, 0>>]}

\* The most entries in a response.
MaxNames == 3

NameLists == UNION {[1..n -> NodeNames] : n \in 0..MaxNames}

EntryBytes(e) == Pad15(e.name) \o <<e.suffix>> \o e.flags

RECURSIVE Flatten(_)
Flatten(seqs) == IF seqs = <<>> THEN <<>> ELSE Head(seqs) \o Flatten(Tail(seqs))

\* The encoded name of the query of buildNBSTATQuery, lines 51-65: length 32, "CK",
\* fifteen times "CA", and the terminator.
EncodedName == <<32, 67, 75>> \o [k \in 1..30 |-> IF k % 2 = 1 THEN 67 ELSE 65] \o <<0>>

\* A node status response with the given entries.  "rfc1002": the layout of
\* RFC 1002 4.2.18, which hosts answer with: header (no question, one answer), the
\* name, type NBSTAT, class IN, TTL 0, the data length, the number of names, the
\* entries, and 46 bytes of statistics.  "pointer" and "labels": the layout with the
\* question echoed before the answer, the answer's name being a pointer or spelled.
NodeStatusResponse(layout, names) ==
  LET rdata == <<Len(names)>> \o Flatten([k \in 1..Len(names) |-> EntryBytes(names[k])])
                 \o [k \in 1..46 |-> 0]
      fixed == <<0, 33, 0, 1, 0, 0, 0, 0, 0, Len(rdata)>>
  IN IF layout = "rfc1002"
       THEN <<0, 1, 132, 0, 0, 0, 0, 1, 0, 0, 0, 0>> \o EncodedName \o fixed \o rdata
     ELSE <<0, 1, 132, 0, 0, 1, 0, 1, 0, 0, 0, 0>> \o EncodedName \o <<0, 33, 0, 1>>
          \o (IF layout = "pointer" THEN <<192, 12>> ELSE EncodedName) \o fixed \o rdata

ResponseLayouts == {"rfc1002", "pointer", "labels"}

NBSTATInputs ==
  {[layout |-> l, names |-> ns, data |-> NodeStatusResponse(l, ns)] :
     l \in ResponseLayouts, ns \in NameLists}

\* One call of parseNBSTATResponse.
ParseNBSTATCall ==
  /\ call.pc = "call" /\ call.fn = "parseNBSTATResponse"
  /\ call' = [call EXCEPT !.pc = "done", !.out = parseNBSTATResponse(call.in.data)]
  /\ UNCHANGED <<appVars, runAll, classify>>

\* ----------------------------------------------------------- network_utils.go
\* A net.Interface with its flags and the addresses Addrs() returns, each an
\* *net.IPNet: IPv4 or not, with the prefix length of its mask.
Iface(name, up, loopback, p2p, broadcast, addrs) ==
  [Name |-> name, up |-> up, loopback |-> loopback, p2p |-> p2p, broadcast |-> broadcast,
   multicast |-> broadcast, addrs |-> addrs]

Addr(ip, v4, ones) == [ip |-> ip, v4 |-> v4, ones |-> ones]

\* The interfaces a host may have: loopback; a LAN card; a card whose first IPv4
\* address is a /32 and whose second is a /24; a card with a /31; a tunnel; a card
\* with an IPv6 address only; a card that is down; a card with an IPv6 and a /16.
IfaceKinds ==
  {Iface("lo", TRUE, TRUE, FALSE, FALSE, <<Addr("127.0.0.1", TRUE, 8)>>),
   Iface("eth0", TRUE, FALSE, FALSE, TRUE, <<Addr("192.168.1.37", TRUE, 24)>>),
   Iface("eth1", TRUE, FALSE, FALSE, TRUE,
         <<Addr("10.9.9.9", TRUE, 32), Addr("10.1.0.1", TRUE, 24)>>),
   Iface("eth2", TRUE, FALSE, FALSE, TRUE, <<Addr("10.2.0.0", TRUE, 31)>>),
   Iface("wg0", TRUE, FALSE, TRUE, FALSE, <<Addr("10.8.0.2", TRUE, 24)>>),
   Iface("eth3", TRUE, FALSE, FALSE, TRUE, <<Addr("fe80::3", FALSE, 64)>>),
   Iface("eth4", FALSE, FALSE, FALSE, TRUE, <<Addr("192.168.4.1", TRUE, 24)>>),
   Iface("eth5", TRUE, FALSE, FALSE, TRUE,
         <<Addr("fe80::5", FALSE, 64), Addr("172.16.0.5", TRUE, 16)>>)}

\* The most interfaces on a host.
MaxIfaces == 2

\* net.Interfaces(): the interfaces of a host, in index order.
Hosts ==
  {h \in UNION {[1..n -> IfaceKinds] : n \in 1..MaxIfaces} :
     \A i, j \in 1..Len(h) : i # j => h[i].Name # h[j].Name}

\* The IPv4 addresses among the addresses of an interface, in their order.
IPv4Addrs(ifc) == SelectSeq(ifc.addrs, LAMBDA a : a.v4)

\* isLANSuitable, lines 73-106.
isLANSuitable(ifc) ==
  /\ ifc.up /\ ~ifc.loopback /\ ~ifc.p2p /\ ifc.broadcast
  /\ \E k \in 1..Len(ifc.addrs) : ifc.addrs[k].v4 /\ ifc.addrs[k].ones <= 30

\* Lines 146-159: the flags description.
FlagNames(ifc) ==
  (IF ifc.broadcast THEN <<"broadcast">> ELSE <<>>)
  \o (IF ifc.p2p THEN <<"point-to-point">> ELSE <<>>)
  \o (IF ifc.multicast THEN <<"multicast">> ELSE <<>>)

\* The entry of lines 139-145 for an interface and its first IPv4 address.
InterfaceEntry(ifc) ==
  [Name |-> ifc.Name, IPv4 |-> IPv4Addrs(ifc)[1].ip, Subnet |-> IPv4Addrs(ifc)[1].ones,
   Flags |-> FlagNames(ifc), IsVPN |-> ifc.p2p \/ ~ifc.broadcast]

\* ListAllInterfaces: one entry for each interface that is up, not loopback and has
\* an IPv4 address.
RECURSIVE ListAllInterfaces(_)
ListAllInterfaces(interfaces) ==
  IF interfaces = <<>> THEN <<>>
  ELSE LET ifc == Head(interfaces) IN
    IF ~ifc.up \/ ifc.loopback \/ IPv4Addrs(ifc) = <<>>
    THEN ListAllInterfaces(Tail(interfaces))
    ELSE <<InterfaceEntry(ifc)>> \o ListAllInterfaces(Tail(interfaces))

\* One call of ListAllInterfaces.
ListAllCall ==
  /\ call.pc = "call" /\ call.fn = "ListAllInterfaces"
  /\ call' = [call EXCEPT !.pc = "done", !.out = ListAllInterfaces(call.in)]
  /\ UNCHANGED <<appVars, runAll, classify>>

\* A nil *net.Interface.
NoIface == Iface("", FALSE, FALSE, FALSE, FALSE, <<>>)

\* The first interface of a sequence that satisfies a test; found says whether there
\* is one.
FirstIface(interfaces, Test(_)) ==
  LET hits == {k \in 1..Len(interfaces) : Test(interfaces[k])} IN
    IF hits = {} THEN [found |-> FALSE, ifc |-> NoIface]
    ELSE [found |-> TRUE, ifc |-> interfaces[SetMin(hits)]]

\* getDefaultInterface, lines 181-219.  udp is what getInterfaceNameByUDP finds: the
\* index of the interface that carries the route to 8.8.8.8, or 0 when it fails.
getDefaultInterface(interfaces, udp) ==
  IF udp # 0 /\ isLANSuitable(interfaces[udp]) THEN [ok |-> TRUE, ifc |-> interfaces[udp]]
  ELSE LET suitable == FirstIface(interfaces, isLANSuitable)
           LastResort(f) == ~f.loopback /\ f.up
           any == FirstIface(interfaces, LastResort)
       IN IF suitable.found THEN [ok |-> TRUE, ifc |-> suitable.ifc]
          ELSE IF any.found THEN [ok |-> TRUE, ifc |-> any.ifc]
          ELSE [ok |-> FALSE, ifc |-> NoIface]

\* getNetworkInterface, lines 50-68: net.InterfaceByName for a name, else the default.
getNetworkInterface(interfaces, udp, interfaceName) ==
  IF interfaceName # ""
  THEN LET Named(f) == f.Name = interfaceName
           named == FirstIface(interfaces, Named)
       IN [ok |-> named.found, ifc |-> named.ifc]
  ELSE getDefaultInterface(interfaces, udp)

\* NewInterfaceInfo, lines 21-46, on a host: the interface, and the first of its
\* addresses that is IPv4 as IPv4Addr and IPv4Net; an error without one.
NewInterfaceInfoOn(interfaces, udp, interfaceName) ==
  LET got == getNetworkInterface(interfaces, udp, interfaceName) IN
    IF ~got.ok THEN [ok |-> FALSE, err |-> "get network interface"]
    ELSE IF IPv4Addrs(got.ifc) = <<>> THEN [ok |-> FALSE, err |-> "interface has no IPv4 address"]
    ELSE [ok |-> TRUE, err |-> "", Interface |-> got.ifc,
          IPv4Addr |-> IPv4Addrs(got.ifc)[1].ip, IPv4Net |-> IPv4Addrs(got.ifc)[1]]

\* The calls of NewInterfaceInfo: a host, the interface its default route uses (if
\* the UDP dial succeeds, one that is up and has an address), and the name asked for:
\* none, that of one of its interfaces, or one it does not have.
SelectInputs ==
  {in \in [interfaces : Hosts, udp : 0..MaxIfaces,
           name : {"", "lo", "eth0", "eth1", "eth2", "wg0", "nope"}] :
     /\ in.udp <= Len(in.interfaces)
     /\ in.udp # 0 => in.interfaces[in.udp].up}

\* One call of NewInterfaceInfo.
NewInterfaceInfoCall ==
  /\ call.pc = "call" /\ call.fn = "NewInterfaceInfo"
  /\ call' = [call EXCEPT !.pc = "done",
                !.out = NewInterfaceInfoOn(call.in.interfaces, call.in.udp, call.in.name)]
  /\ UNCHANGED <<appVars, runAll, classify>>

\* ------------------------------------------------- os_detect.go, the OS stages
\* The text lowered contains one of the words.
Mentions(text, words) == \E w \in words : Contains(ToLower(text), w)

LinuxHints ==
  {<<"u", "b", "u", "n", "t", "u">>, <<"d", "e", "b", "i", "a", "n">>, <<"f", "e", "d", "o", "r", "a">>, <<"c", "e", "n", "t", "o", "s">>, <<"r", "h", "e", "l">>, <<"a", "r", "c", "h">>, <<"g", "e", "n", "t", "o", "o">>,
   <<"o", "p", "e", "n", "s", "u", "s", "e">>, <<"s", "u", "s", "e">>, <<"a", "l", "p", "i", "n", "e">>, <<"k", "a", "l", "i">>, <<"m", "i", "n", "t">>, <<"m", "a", "n", "j", "a", "r", "o">>, <<"r", "a", "s", "p", "b", "i", "a", "n">>,
   <<"r", "a", "s", "p", "b", "e", "r", "r", "y">>, <<"a", "r", "m", "b", "i", "a", "n">>}

\* Words an SSH server may put in its banner, as servers spell them.
SSHWords ==
  {<<"U", "b", "u", "n", "t", "u">>, <<"D", "e", "b", "i", "a", "n">>, <<"f", "e", "d", "o", "r", "a">>, <<"C", "e", "n", "t", "O", "S">>, <<"R", "H", "E", "L">>, <<"A", "r", "c", "h">>, <<"g", "e", "n", "t", "o", "o">>,
   <<"o", "p", "e", "n", "S", "U", "S", "E">>, <<"S", "U", "S", "E">>, <<"A", "l", "p", "i", "n", "e">>, <<"K", "a", "l", "i">>, <<"M", "i", "n", "t">>, <<"M", "a", "n", "j", "a", "r", "o">>, <<"R", "a", "s", "p", "b", "i", "a", "n">>,
   <<"R", "a", "s", "p", "b", "e", "r", "r", "y">>, <<"A", "r", "m", "b", "i", "a", "n">>, <<"F", "r", "e", "e", "B", "S", "D">>, <<"M", "i", "c", "r", "o", "s", "o", "f", "t">>, <<"W", "i", "n", "d", "o", "w", "s">>, <<"O", "p", "e", "n", "S", "S", "H">>,
   <<"d", "r", "o", "p", "b", "e", "a", "r">>}

BannerOpenSSHForWindows == <<"S", "S", "H", "-", "2", ".", "0", "-", "O", "p", "e", "n", "S", "S", "H", "_", "f", "o", "r", "_", "W", "i", "n", "d", "o", "w", "s", "_", "8", ".", "1">>

\* Banner maps: a port-22 banner naming two words, the banners of the tests, a map
\* without port 22, and one whose port-22 banner is empty.
SSHInputs ==
  {[p \in {22} |-> <<"S", "S", "H", "-", "2", ".", "0", "-">> \o w1 \o <<"_">> \o w2] : w1 \in SSHWords, w2 \in SSHWords}
  \cup {[p \in {22} |-> BannerOpenSSHForWindows], [p \in {22} |-> BannerOpenSSH],
        [p \in {} |-> StrEmpty], [p \in {25} |-> BannerPostfixUbuntu],
        [p \in {21, 25} |-> IF p = 21 THEN BannerMicrosoftFTP ELSE BannerPostfixUbuntu],
        [p \in {22, 25} |-> IF p = 22 THEN StrEmpty ELSE BannerPostfixUbuntu],
        [p \in {22, 25} |-> IF p = 22 THEN <<"S", "S", "H", "-", "2", ".", "0", "-", "d", "r", "o", "p", "b", "e", "a", "r">> ELSE BannerPostfixUbuntu]}

\* One call of osFromSSHBanner.
OsFromSSHBannerCall ==
  /\ call.pc = "call" /\ call.fn = "osFromSSHBanner"
  /\ call' = [call EXCEPT !.pc = "done", !.out = osFromSSHBanner(call.in)]
  /\ UNCHANGED <<appVars, runAll, classify>>

\* Words a service may put in a Server header or a banner, as services spell them.
ServiceWords ==
  {<<"M", "i", "c", "r", "o", "s", "o", "f", "t">>, <<"I", "I", "S">>, <<"W", "i", "n", "d", "o", "w", "s">>, <<"W", "i", "n", "3", "2">>, <<"W", "i", "n", "6", "4">>, <<"U", "b", "u", "n", "t", "u">>, <<"D", "e", "b", "i", "a", "n">>,
   <<"C", "e", "n", "t", "O", "S">>, <<"F", "e", "d", "o", "r", "a">>, <<"R", "e", "d", " ", "H", "a", "t">>, <<"R", "H", "E", "L">>, <<"A", "l", "p", "i", "n", "e">>, <<"L", "i", "n", "u", "x">>, <<"D", "a", "r", "w", "i", "n">>,
   <<"m", "a", "c", "O", "S">>, <<"M", "a", "c", " ", "O", "S">>, <<"F", "r", "e", "e", "B", "S", "D">>, <<"n", "g", "i", "n", "x">>}

\* Texts naming one word, and texts naming two in either order.
ServiceTexts ==
  {<<"A", "p", "a", "c", "h", "e", "/", "2", ".", "4", " ", "(">> \o w \o <<")">> : w \in ServiceWords}
  \cup {w1 \o <<"/", "1", ".", "0", " ">> \o w2 : w1 \in ServiceWords, w2 \in ServiceWords}

ServerApacheUbuntu == <<"A", "p", "a", "c", "h", "e", "/", "2", ".", "4", ".", "4", "1", " ", "(", "U", "b", "u", "n", "t", "u", ")">>
ServerNginxFreeBSD == <<"n", "g", "i", "n", "x", "/", "1", ".", "2", "4", ".", "0", " ", "(", "F", "r", "e", "e", "B", "S", "D", ")">>
ServerApacheAlpine == <<"A", "p", "a", "c", "h", "e", "/", "2", ".", "4", " ", "(", "A", "l", "p", "i", "n", "e", ")">>

HTTPServerInputs ==
  ServiceTexts \cup {StrEmpty, ServerIIS, ServerApacheUbuntu, ServerNginxFreeBSD, ServerApacheAlpine}

\* One call of osFromHTTPServer.
OsFromHTTPServerCall ==
  /\ call.pc = "call" /\ call.fn = "osFromHTTPServer"
  /\ call' = [call EXCEPT !.pc = "done", !.out = osFromHTTPServer(call.in)]
  /\ UNCHANGED <<appVars, runAll, classify>>

\* Banner maps: one banner on one port, and two banners on two ports.
BannerPorts == {21, 22, 25}
BannersStageInputs ==
  {[q \in {p} |-> t] : p \in BannerPorts, t \in ServiceTexts}
  \cup {[q \in {22} |-> BannerOpenSSHUbuntu], [q \in {} |-> StrEmpty],
        [q \in {21} |-> BannerMicrosoftFTP], [q \in {25} |-> BannerPostfixUbuntu],
        [q \in {21, 25} |-> IF q = 21 THEN BannerMicrosoftFTP ELSE BannerPostfixUbuntu],
        [q \in {22, 25} |-> IF q = 22 THEN BannerOpenSSHUbuntu ELSE BannerPostfixUbuntu]}

\* One call of osFromBanners; the range visits the map in some order.
OsFromBannersCall ==
  /\ call.pc = "call" /\ call.fn = "osFromBanners"
  /\ \E border \in Orders(DOMAIN call.in) :
       call' = [call EXCEPT !.pc = "done",
                  !.out = [os |-> osFromBanners(call.in, border), border |-> border]]
  /\ UNCHANGED <<appVars, runAll, classify>>

\* Words a device may advertise over mDNS or SSDP, as devices spell them.
ExtraWords ==
  {<<"i", "P", "h", "o", "n", "e", "-", "1", "2">>, <<"i", "P", "a", "d">>, <<"i", "P", "o", "d">>, <<"A", "p", "p", "l", "e", " ", "T", "V">>, <<"_", "a", "i", "r", "p", "l", "a", "y", ".", "_", "t", "c", "p">>,
   <<"_", "c", "o", "m", "p", "a", "n", "i", "o", "n", "-", "l", "i", "n", "k", ".", "_", "t", "c", "p">>, <<"m", "a", "c", "O", "S">>, <<"M", "a", "c", " ", "O", "S", " ", "X">>, <<"A", "n", "d", "r", "o", "i", "d", "/", "1", "2", " ", "U", "P", "n", "P", "/", "1", ".", "0">>,
   <<"M", "i", "c", "r", "o", "s", "o", "f", "t", "-", "W", "i", "n", "d", "o", "w", "s", "/", "1", "0", ".", "0">>, <<"W", "i", "n", "d", "o", "w", "s">>, <<"L", "i", "n", "u", "x", "/", "5", ".", "1", "5">>, <<"U", "b", "u", "n", "t", "u">>, <<"D", "e", "b", "i", "a", "n">>,
   <<"F", "e", "d", "o", "r", "a">>, <<"_", "i", "p", "p", ".", "_", "t", "c", "p">>}

KeyMdnsName == <<"m", "d", "n", "s", ".", "n", "a", "m", "e">>
KeySsdpServer == <<"s", "s", "d", "p", ".", "s", "e", "r", "v", "e", "r">>

\* Metadata maps: none, one entry, and two entries.
ExtraDataInputs ==
  {[k \in {} |-> StrEmpty]}
  \cup {[k \in {key} |-> w] : key \in {KeyMdnsName, KeyService, KeySsdpServer}, w \in ExtraWords}
  \cup {[k \in {KeyMdnsName, KeySsdpServer} |-> IF k = KeyMdnsName THEN w1 ELSE w2] :
          w1 \in ExtraWords, w2 \in ExtraWords}
  \cup {[k \in {KeyMdnsName} |-> <<"i", "P", "h", "o", "n", "e", "-", "1", "2", ".", "_", "c", "o", "m", "p", "a", "n", "i", "o", "n", "-", "l", "i", "n", "k", ".", "_", "t", "c", "p">>],
        [k \in {KeyModel, KeyOs} |-> IF k = KeyModel THEN <<"M", "a", "c">> ELSE <<"X">>]}

\* One call of osFromExtraData; flattenMap visits the map in some order.
OsFromExtraDataCall ==
  /\ call.pc = "call" /\ call.fn = "osFromExtraData"
  /\ \E eorder \in Orders(DOMAIN call.in) :
       call' = [call EXCEPT !.pc = "done",
                  !.out = [os |-> osFromExtraData(call.in, eorder), eorder |-> eorder]]
  /\ UNCHANGED <<appVars, runAll, classify>>

\* Port lists put to osFromPorts have at most MaxPorts entries, in any order and with
\* repetitions.
MaxPorts == 3
HeuristicPorts == {22, 445, 548, 3389, 5985}
PortLists == UNION {[1..n -> HeuristicPorts] : n \in 0..MaxPorts}
PortsOf(ports) == {ports[k] : k \in 1..Len(ports)}

\* One call of osFromPorts.
OsFromPortsCall ==
  /\ call.pc = "call" /\ call.fn = "osFromPorts"
  /\ call' = [call EXCEPT !.pc = "done", !.out = osFromPorts(call.in)]
  /\ UNCHANGED <<appVars, runAll, classify>>

\* ------------------------------------------- parseNBSTATResponse, step by step
\* The parser as the steps it takes over a buffer: call.in is data, call.out holds
\* pos, numNames, the loop counter i, the positions read so far and the name returned.
\* An index outside the buffer panics.
MinResponse == 57

InBuffer(data, positions) == positions \subseteq 0..(Len(data) - 1)

\* An entry starts within the buffer.
EntryStarts(data, pos) == pos < Len(data)

\* pos+18 <= len(data): an entry starting at pos lies whole within the buffer.
EntryFits(data, pos) == pos + 18 <= Len(data)

ParseReturn(name) == [call EXCEPT !.pc = "done", !.out.name = name]
ParsePanic(positions) == [call EXCEPT !.pc = "panic", !.out.reads = @ \cup positions]

\* Lines 80-85: the length test, and pos := 12.
ParseStart ==
  /\ call.pc = "call" /\ call.fn = "parseNBSTATResponse:steps"
  /\ call' = [call EXCEPT
                !.pc = IF Len(call.in) < MinResponse THEN "done" ELSE "question",
                !.out = [pos |-> IF Len(call.in) < MinResponse THEN 0 ELSE 12,
                         numNames |-> 0, i |-> 0, reads |-> {}, name |-> <<>>]]
  /\ UNCHANGED <<appVars, runAll, classify>>

\* One test of a label loop (lines 86-89, the question name; lines 103-106, the
\* answer name): a label is skipped, or the loop ends and the terminator is skipped,
\* after the question name with the type and class and the test of line 93.
ParseSkipLabel ==
  /\ call.pc \in {"question", "answerLabels"}
  /\ LET data == call.in
         pos == call.out.pos
         within == pos < Len(data)
         seen == [call EXCEPT !.out.reads = @ \cup (IF within THEN {pos} ELSE {})]
     IN call' =
          IF within /\ At(data, pos) # 0
            THEN [seen EXCEPT !.out.pos = pos + At(data, pos) + 1]
          ELSE IF call.pc = "answerLabels"
            THEN [seen EXCEPT !.pc = "count", !.out.pos = pos + 1]
          ELSE [seen EXCEPT !.pc = IF pos + 5 >= Len(data) THEN "done" ELSE "answer",
                            !.out.pos = pos + 5]
  /\ UNCHANGED <<appVars, runAll, classify>>

\* Lines 100-102: data[pos]&0xC0 == 0xC0, a compressed pointer, is skipped; any other
\* byte starts a label sequence.
ParseAnswer ==
  /\ call.pc = "answer"
  /\ LET data == call.in
         pos == call.out.pos
     IN call' =
          IF ~InBuffer(data, {pos}) THEN ParsePanic({pos})
          ELSE IF At(data, pos) >= 192
            THEN [call EXCEPT !.pc = "count", !.out.pos = pos + 2, !.out.reads = @ \cup {pos}]
          ELSE [call EXCEPT !.pc = "answerLabels", !.out.reads = @ \cup {pos}]
  /\ UNCHANGED <<appVars, runAll, classify>>

\* Lines 110-119: type, class, TTL and data length are skipped and numNames is read.
ParseCount ==
  /\ call.pc = "count"
  /\ LET data == call.in
         pos == call.out.pos + 10
     IN call' =
          IF pos >= Len(data) THEN [ParseReturn(<<>>) EXCEPT !.out.pos = pos]
          ELSE IF ~InBuffer(data, {pos}) THEN ParsePanic({pos})
          ELSE LET seen == [call EXCEPT !.out.pos = pos + 1, !.out.numNames = At(data, pos),
                                        !.out.reads = @ \cup {pos}]
               IN IF At(data, pos) = 0 \/ ~EntryFits(data, pos + 1)
                    THEN [seen EXCEPT !.pc = "done"]
                  ELSE [seen EXCEPT !.pc = "entries"]
  /\ UNCHANGED <<appVars, runAll, classify>>

\* Lines 121-135: one test of the entry loop; an entry is read and returned or passed
\* over, or the loop ends.
ParseEntry ==
  /\ call.pc = "entries"
  /\ LET data == call.in
         pos == call.out.pos
         entry == pos..(pos + 17)
     IN call' =
          IF ~(call.out.i < call.out.numNames /\ EntryFits(data, pos)) THEN ParseReturn(<<>>)
          ELSE IF ~InBuffer(data, entry) THEN ParsePanic(entry)
          ELSE LET name == TrimRight(SubSeq(data, pos + 1, pos + 15))
                   seen == [call EXCEPT !.out.pos = pos + 18, !.out.reads = @ \cup entry]
               IN IF At(data, pos + 15) = 0 /\ At(data, pos + 16) < 128 /\ name # <<>>
                    THEN [seen EXCEPT !.pc = "done", !.out.name = name]
                  ELSE [seen EXCEPT !.out.i = @ + 1]
  /\ UNCHANGED <<appVars, runAll, classify>>

ParseNext == ParseStart \/ ParseSkipLabel \/ ParseAnswer \/ ParseCount \/ ParseEntry

\* Buffers: node status responses of each layout with one byte overwritten, cut short.
PatchAt == {12, 45, 50, 56, 62, 72, 73, 78, 94, 110}
PatchBytes == {0, 1, 2, 32, 128, 192, 255}
CutBytes == {0, 45, 46, 47, 63, 64, 65, 82}
NamesParsed ==
  {<<>>,
   <<[name |-> NameWorkstation, suffix |-> 0, flags |-> <<4, 0>>]>>,
   <<[name |-> NameWorkgroup, suffix |-> 0, flags |-> <<132, 0>>],
     [name |-> NameWorkstation, suffix |-> 0, flags |-> <<4, 0>>]>>,
   <<[name |-> NameWorkstation, suffix |-> 32, flags |-> <<4, 0>>],
     [name |-> <<>>, suffix |-> 0, flags |-> <<4, 0>>]>>}

Patch(data, at, byte) == [k \in 1..Len(data) |-> IF k = at + 1 THEN byte ELSE data[k]]
Cut(data, n) == SubSeq(data, 1, IF n > Len(data) THEN 0 ELSE Len(data) - n)

Buffers ==
  {Cut(Patch(NodeStatusResponse(l, ns), at, byte), n) :
     l \in ResponseLayouts, ns \in NamesParsed, at \in PatchAt, byte \in PatchBytes,
     n \in CutBytes}
  \cup {[k \in 1..n |-> byte] : n \in {0, 56, 57, 58, 76, 100}, byte \in PatchBytes}

\* ------------------------------------------- Prober.RunAll, the order of the ports
\* Open ports as a port scan appends them, in the order the ports answered.
RunAllPortInputs ==
  {[openPorts |-> p, manufacturer |-> StrEmpty, extraData |-> [k \in {} |-> StrEmpty]] :
     p \in {<<80, 8080>>, <<8080, 80>>, <<443, 22, 80>>, <<22, 9090>>}}

\* The answer FetchHTTPInfo got, from the composite banner stored for the port.
AnswerOf(banner) == CHOOSE a \in HTTPAnswers : CompositeBanner(a.title, a.server) = banner

\* ----------------------------------------------------------- specifications
vars == <<appVars, libVars>>

Init == AppInit /\ runAll = RunAllIdle /\ classify = ClassifyIdle /\ call = CallIdle
Next == AppNext
Spec == Init /\ [][Next]_vars

\* Interface switches only.
SpecSwitch == Init /\ [][SwitchNext]_vars

\* One interface, the user selecting, probing, port-scanning and waking devices.
SpecDevice == Init /\ [][DeviceNext]_vars

\* One call of Prober.RunAll, on any of the inputs.
RunAllInit ==
  /\ AppInit /\ classify = ClassifyIdle /\ call = CallIdle
  /\ runAll \in {[RunAllIdle EXCEPT !.pc = "rdns", !.in = i] : i \in RunAllInputs}
SpecRunAll == RunAllInit /\ [][RunAllNext]_vars

\* The classifiers called twice on any of the devices.
ClassifyInit ==
  /\ AppInit /\ runAll = RunAllIdle /\ call = CallIdle
  /\ classify \in {[ClassifyIdle EXCEPT !.pc = "input", !.in = i] : i \in ClassifyInputs}
SpecClassify == ClassifyInit /\ [][ClassifyNext]_vars

\* One call of DetectOS on any of the hosts.
DetectOSInit ==
  /\ AppInit /\ runAll = RunAllIdle /\ classify = ClassifyIdle
  /\ call \in Calls("DetectOS", DetectOSInputs)
SpecDetectOS == DetectOSInit /\ [][DetectOSCall]_vars

\* One call of classifyTTL on any TTL.
ClassifyTTLInit ==
  /\ AppInit /\ runAll = RunAllIdle /\ classify = ClassifyIdle
  /\ call \in Calls("classifyTTL", (0 - MaxTTL)..MaxTTL)
SpecClassifyTTL == ClassifyTTLInit /\ [][ClassifyTTLCall]_vars

\* One call of Fingerprint on any of the devices.
FingerprintInit ==
  /\ AppInit /\ runAll = RunAllIdle /\ classify = ClassifyIdle
  /\ call \in Calls("Fingerprint", FingerprintInputs)
SpecFingerprint == FingerprintInit /\ [][FingerprintCall]_vars

\* One call of sanitizeBanner on any of the raw banners.
SanitizeBannerInit ==
  /\ AppInit /\ runAll = RunAllIdle /\ classify = ClassifyIdle
  /\ call \in Calls("sanitizeBanner", RawBanners)
SpecSanitizeBanner == SanitizeBannerInit /\ [][SanitizeBannerCall]_vars

\* One call of SendWoL on any of the MAC strings.
SendWoLInit ==
  /\ AppInit /\ runAll = RunAllIdle /\ classify = ClassifyIdle
  /\ call \in Calls("SendWoL", MacInputs)
SpecSendWoL == SendWoLInit /\ [][SendWoLCall]_vars

\* One call of BroadcastAddr on any of the subnets.
BroadcastAddrInit ==
  /\ AppInit /\ runAll = RunAllIdle /\ classify = ClassifyIdle
  /\ call \in Calls("BroadcastAddr", SubnetInputs)
SpecBroadcastAddr == BroadcastAddrInit /\ [][BroadcastAddrCall]_vars

\* One call of parseNBSTATResponse on any of the responses.
ParseNBSTATInit ==
  /\ AppInit /\ runAll = RunAllIdle /\ classify = ClassifyIdle
  /\ call \in Calls("parseNBSTATResponse", NBSTATInputs)
SpecParseNBSTAT == ParseNBSTATInit /\ [][ParseNBSTATCall]_vars

\* One call of ListAllInterfaces on any of the hosts.
ListAllInit ==
  /\ AppInit /\ runAll = RunAllIdle /\ classify = ClassifyIdle
  /\ call \in Calls("ListAllInterfaces", Hosts)
SpecListAll == ListAllInit /\ [][ListAllCall]_vars

\* One call of NewInterfaceInfo on any host with any name.
NewInterfaceInfoInit ==
  /\ AppInit /\ runAll = RunAllIdle /\ classify = ClassifyIdle
  /\ call \in Calls("NewInterfaceInfo", SelectInputs)
SpecNewInterfaceInfo == NewInterfaceInfoInit /\ [][NewInterfaceInfoCall]_vars

\* The events channel filled to its capacity by the keys of the port scan modal.
SpecSink == Init /\ [][SinkNext]_vars

\* One call of osFromSSHBanner on any of the banner maps.
OsFromSSHBannerInit ==
  /\ AppInit /\ runAll = RunAllIdle /\ classify = ClassifyIdle
  /\ call \in Calls("osFromSSHBanner", SSHInputs)
SpecOsFromSSHBanner == OsFromSSHBannerInit /\ [][OsFromSSHBannerCall]_vars

\* One call of osFromHTTPServer on any of the Server headers.
OsFromHTTPServerInit ==
  /\ AppInit /\ runAll = RunAllIdle /\ classify = ClassifyIdle
  /\ call \in Calls("osFromHTTPServer", HTTPServerInputs)
SpecOsFromHTTPServer == OsFromHTTPServerInit /\ [][OsFromHTTPServerCall]_vars

\* One call of osFromBanners on any of the banner maps.
OsFromBannersInit ==
  /\ AppInit /\ runAll = RunAllIdle /\ classify = ClassifyIdle
  /\ call \in Calls("osFromBanners", BannersStageInputs)
SpecOsFromBanners == OsFromBannersInit /\ [][OsFromBannersCall]_vars

\* One call of osFromExtraData on any of the metadata maps.
OsFromExtraDataInit ==
  /\ AppInit /\ runAll = RunAllIdle /\ classify = ClassifyIdle
  /\ call \in Calls("osFromExtraData", ExtraDataInputs)
SpecOsFromExtraData == OsFromExtraDataInit /\ [][OsFromExtraDataCall]_vars

\* One call of osFromPorts on any of the port lists.
OsFromPortsInit ==
  /\ AppInit /\ runAll = RunAllIdle /\ classify = ClassifyIdle
  /\ call \in Calls("osFromPorts", PortLists)
SpecOsFromPorts == OsFromPortsInit /\ [][OsFromPortsCall]_vars

\* One call of parseNBSTATResponse on any of the buffers, taken step by step; the
\* goroutine that calls it keeps running, so a step that can be taken is taken.
ParseStepsInit ==
  /\ AppInit /\ runAll = RunAllIdle /\ classify = ClassifyIdle
  /\ call \in Calls("parseNBSTATResponse:steps", Buffers)
SpecParseSteps == ParseStepsInit /\ [][ParseNext]_vars /\ WF_vars(ParseNext)

\* One call of RunAll on open ports in the order a port scan found them.
RunAllPortsInit ==
  /\ AppInit /\ classify = ClassifyIdle /\ call = CallIdle
  /\ runAll \in {[RunAllIdle EXCEPT !.pc = "rdns", !.in = i] : i \in RunAllPortInputs}
SpecRunAllPorts == RunAllPortsInit /\ [][RunAllNext]_vars

\* The steps the goroutines take on their own: a scan loop (its scan window ends and
\* its ticker fires), a switchInterface call, and the event handler.
LoopSteps(g) ==
  \/ ScanStart(g) \/ ScanStream(g) \/ ScanReturn(g) \/ InjectBuild(g) \/ InjectUpsert(g)
  \/ ScanStop(g) \/ ScanTick(g)
SwitchSteps(i) ==
  \/ SwitchCheck(i) \/ SwitchCancel(i) \/ SwitchStopTicker(i) \/ SwitchNewInfo(i)
  \/ SwitchRebuild(i) \/ SwitchSetState(i) \/ SwitchClear(i) \/ SwitchRestart(i)
SwitchHandlerSteps == HandleHideView \/ HandleDiscovery \/ HandleInterfaceSelected

\* Interface switches with every goroutine scheduled: a goroutine that can take a
\* step takes one, and a loop waiting to emit gets its turn when the channel has room
\* again and again.  The user and the scanners' reports are under no obligation.
SpecSwitchFair ==
  /\ Init /\ [][SwitchNext]_vars
  /\ \A g \in LoopIds : SF_vars(LoopSteps(g))
  /\ \A i \in SwitchIds : WF_vars(SwitchSteps(i))
  /\ WF_vars(SwitchHandlerSteps)

\* The steps the event handler takes on its own in the port scan modal.
StartStopHandlerSteps ==
  HandleHideView \/ HandlePortScanStarted \/ HandlerEmitHide \/ HandlePortScanStopped

\* The user pressing keys of the port scan modal before a device is selected, the
\* handler, and the startPortscan goroutine the handler starts.
StartStopNext ==
  \/ UIEscape \/ UIStartScan
  \/ \E i \in ProcIds : PortscanNoDevice(i)
  \/ StartStopHandlerSteps

\* Every goroutine is scheduled: the handler takes the step it can take, and a
\* startPortscan goroutine waiting to send on the channel gets its turn when the
\* channel has room again and again.  The user is under no obligation.
SpecStartStop ==
  /\ Init /\ [][StartStopNext]_vars
  /\ WF_vars(StartStopHandlerSteps)
  /\ \A i \in ProcIds : SF_vars(PortscanNoDevice(i))

\* ------------------------------------------------------------------ claims
\* C1: switchInterface clears the store only after the cancelled scan cycle has
\* unwound: at the clear no scan cycle is in progress, and a cycle that began before a
\* clear upserts no local device after it.
C1_ClearAfterUnwind ==
  [][/\ clearCount' # clearCount => \A g \in LoopIds : ~InCycle(g)
     /\ \A g \in LoopIds :
          (loops[g].pc = "upsert" /\ loops'[g].pc = "stop") => loops[g].epoch = clearCount]_vars

\* C2: at any time at most one scan cycle (DiscoveryStarted emitted, DiscoveryStopped
\* not yet) is in progress.
C2_OneScanCycle == Cardinality({g \in LoopIds : InCycle(g)}) <= 1

\* C3: the step at which switchInterface fails to build the interface info reports
\* the failure (an event goes to the UI) and leaves engine, port scanner, interface
\* info, active interface, local IP and device store as they were.
C3_FailureReportedAndIntact ==
  [][\A i \in SwitchIds :
       (switches[i].pc = "newInfo" /\ switches'[i].pc = "failed")
         => /\ Len(events') > Len(events)
            /\ UNCHANGED <<engine, portScanner, iface, activeInterface, localIP, devices>>]_vars

\* The part of C3 the code keeps: a failing switch never touches the engine, the
\* port scanner, the interface info, the active interface, the local IP or the store.
C3_FailureLeavesEngineIntact ==
  [][\A i \in SwitchIds :
       (switches[i].pc = "newInfo" /\ switches'[i].pc = "failed")
         => UNCHANGED <<engine, portScanner, iface, activeInterface, localIP, devices>>]_vars

ScalarFields ==
  {"MAC", "Manufacturer", "DisplayName", "ReverseDNS", "HTTPTitle", "HTTPServer",
   "NetBIOSName", "DeviceType"}

\* C4: merge monotonicity. Over every step that is not a clear of the store, each
\* stored device stays stored, its sources never lose an element and none of its
\* non-empty scalar fields becomes empty.
C4_MergeMonotonic ==
  [][clearCount' = clearCount =>
       \A ip \in DOMAIN devices :
         /\ ip \in DOMAIN devices'
         /\ devices[ip].Sources \subseteq devices'[ip].Sources
         /\ \A f \in ScalarFields : devices[ip][f] # "" => devices'[ip][f] # ""]_vars

\* A device seen by both scanners has been probed twice and keeps the probe's fields.
C4_Witness ==
  \E ip \in DOMAIN devices :
    /\ devices[ip].Sources = {"arp", "mdns"}
    /\ devices[ip].LastProbe >= 2
    /\ devices[ip].NetBIOSName # ""

\* C5: at the step a port scan emits PortScanStopped, the stored tcp list of the
\* scanned device is exactly the list of ports reported open during this scan (the
\* empty list if none), and its last_port_scan is the time of this scan.
C5_PortListReplaced ==
  [][\A i \in DOMAIN portscans :
       (/\ portscans[i].pc = "scan"
        /\ portscans' = Without(portscans, i)
        /\ Len(events') > Len(events))
         => LET d == portscans[i].dev IN
              /\ d.IP \in DOMAIN devices
              /\ TcpPorts(devices[d.IP]) = TcpPorts(d)
              /\ devices[d.IP].LastPortScan = d.LastPortScan]_vars

C7_LocalDeviceInjected ==
  /\ [](\A g \in LoopIds : loops[g].pc = "upsert" => loops[g].local = loops[g].eng)
  /\ [][(/\ hpc = "idle" /\ events # <<>>
         /\ Head(events).type = "DiscoveryStopped"
         /\ events' = Tail(events))
          => /\ localIP \in DOMAIN devices
             /\ devices[localIP].MAC = IfaceMAC(activeInterface)
             /\ "local" \in devices[localIP].Sources
             /\ devices[localIP].DisplayName = "(this device)"]_vars

\* C8: at any time at most one probe of a given device is running.
C8_ProbesSerialized ==
  \A i, j \in DOMAIN probes :
    (i # j /\ probes[i].pc = "run" /\ probes[j].pc = "run")
      => probes[i].dev.IP # probes[j].dev.IP

\* C9: no sub-probe of RunAll is called once the context is done: no banner grab
\* or HTTP fetch for a remaining port, no NBSTAT query, no dial.
C9_CancelDiscardsPending ==
  \A k \in DOMAIN runAll.ops : ~runAll.ops[k].late

\* C10: two passes of the classifiers over equal arguments give equal verdicts,
\* whatever the orders in which the two passes range over the maps.
C10_ClassifiersDeterministic ==
  classify.pc = "twice" => classify.first = classify.second

\* The verdicts of the seven stages of one finished DetectOS call, in stage order.
StageVerdicts ==
  <<osFromSSHBanner(call.in.banners),
    osFromHTTPServer(call.in.httpServer),
    osFromBanners(call.in.banners, call.out.border),
    osFromExtraData(call.in.extra, call.out.eorder),
    IF call.in.netbiosName # <<>> THEN "Windows" ELSE "",
    osFromTTL(call.out.ctx, call.in.ports, call.out.net),
    osFromPorts(call.in.ports)>>

\* C11: DetectOS returns the verdict of the first stage, in the order SSH banner, HTTP
\* Server header, other banners, extra data, NetBIOS name, TTL, ports, whose verdict
\* is not empty, and the empty verdict when every stage's verdict is empty.
C11_FirstStageWins ==
  (call.fn = "DetectOS" /\ call.pc = "done") =>
    LET verdicts == StageVerdicts
        hits == {k \in 1..Len(verdicts) : verdicts[k] # ""}
    IN call.out.os = IF hits = {} THEN "" ELSE verdicts[SetMin(hits)]

\* An Ubuntu OpenSSH banner on port 22 with port 3389 open was classified Linux.
C11_Witness ==
  /\ call.fn = "DetectOS" /\ call.pc = "done"
  /\ 22 \in DOMAIN call.in.banners /\ call.in.ports = <<22, 3389>>
  /\ StageVerdicts[7] = "Windows"
  /\ call.out.os = "Linux"

\* C19: classifyTTL gives a verdict for every integer: empty for ttl <= 0, Linux for
\* 1..64, Windows for 65..128, Linux for 129..255.
C19_TTLRanges ==
  (call.fn = "classifyTTL" /\ call.pc = "done") =>
    /\ call.out \in {"", "Linux", "Windows"}
    /\ call.in <= 0 => call.out = ""
    /\ call.in \in 1..64 => call.out = "Linux"
    /\ call.in \in 65..128 => call.out = "Windows"
    /\ call.in \in 129..255 => call.out = "Linux"

\* TTL 64, the last of the first range, was classified Linux.
C19_Witness ==
  /\ call.fn = "classifyTTL" /\ call.pc = "done"
  /\ call.in = 64 /\ call.out = "Linux"

\* The verdicts of the three stages of one finished Fingerprint call, in stage order.
FingerprintStages ==
  <<FirstRule(ManufacturerRules, ToLower(call.in.manufacturer)),
    FirstRule(ServiceRules, ToLower(flattenMap(call.in.extra, call.out.eorder))),
    fingerprintByPorts(call.in.ports, call.in.banners, call.out.border,
                       ToLower(call.in.httpServer))>>

\* C12: Fingerprint returns the verdict of the first of the stages manufacturer
\* keywords (matched without regard to case, rules in table order), extra-data
\* keywords, ports and banners whose verdict is not empty, and Unknown, never the
\* empty string, when no stage matches; so a Canon manufacturer is a Printer whatever
\* else is known.
C12_ThreeStages ==
  (call.fn = "Fingerprint" /\ call.pc = "done") =>
    LET stages == FingerprintStages
        hits == {k \in 1..Len(stages) : stages[k] # ""}
    IN /\ call.out.deviceType = IF hits = {} THEN "Unknown" ELSE stages[SetMin(hits)]
       /\ call.out.deviceType # ""
       /\ call.in.manufacturer \in {MfrCanon, MfrCanonUpper} => call.out.deviceType = "Printer"
       /\ call.in.manufacturer = MfrGoogleNest => call.out.deviceType = "Phone/Tablet"

\* A Canon device with the camera port 554 open and chromecast extra data was
\* classified Printer.
C12_Witness ==
  /\ call.fn = "Fingerprint" /\ call.pc = "done"
  /\ call.in.manufacturer = MfrCanonUpper /\ call.in.ports = <<554>>
  /\ FingerprintStages[2] = "Smart TV" /\ FingerprintStages[3] = "IP Camera"
  /\ call.out.deviceType = "Printer"

\* The banner of a finished sanitizeBanner call was truncated: its first line,
\* stripped and trimmed, is longer than 120 bytes.
Truncated == Len(TrimSpace(Printable(FirstLine(call.in)))) > 120

EndsInEllipsis(s) == Len(s) >= 3 /\ SubSeq(s, Len(s) - 2, Len(s)) = Ellipsis

\* The sanitized banner has only bytes in 0x20..0x7E, no CR or LF, and at most 120
\* bytes.
SanitizedShape ==
  /\ \A k \in 1..Len(call.out) : call.out[k] \in 32..126 /\ call.out[k] \notin {13, 10}
  /\ Len(call.out) <= 120

\* C13 as stated: for every raw banner the sanitized banner has only bytes in
\* 0x20..0x7E, has no CR or LF, has at most 120 bytes, and ends in "..." if and only if
\* it was truncated.
C13_EllipsisIffTruncated ==
  (call.fn = "sanitizeBanner" /\ call.pc = "done") =>
    /\ SanitizedShape
    /\ EndsInEllipsis(call.out) <=> Truncated

\* C13 amended: for every raw banner the sanitized banner has only bytes in
\* 0x20..0x7E, has no CR or LF and has at most 120 bytes; a truncated banner is the
\* first 117 bytes of the cleaned line and "...", 120 bytes in all; a banner that was
\* not truncated is the cleaned line unchanged, whatever it ends in.
C13_SanitizedBanner ==
  (call.fn = "sanitizeBanner" /\ call.pc = "done") =>
    /\ SanitizedShape
    /\ Truncated => /\ EndsInEllipsis(call.out) /\ Len(call.out) = 120
                    /\ SubSeq(call.out, 1, 117) =
                         SubSeq(TrimSpace(Printable(FirstLine(call.in))), 1, 117)
    /\ ~Truncated => call.out = TrimSpace(Printable(FirstLine(call.in)))

\* A banner of more than 120 printable bytes, with a rune to strip before them and a
\* second line after them, was truncated.
C13_Witness ==
  /\ call.fn = "sanitizeBanner" /\ call.pc = "done"
  /\ Truncated /\ call.in[1] = 233 /\ call.in[Len(call.in)] = 66
  /\ Len(call.out) = 120 /\ EndsInEllipsis(call.out)

\* C14: SendWoL sends a datagram only for a MAC string that spells exactly 6 bytes,
\* and the datagram then has 102 bytes, six of 0xFF and 16 copies of the 6 bytes; for
\* any other MAC string it returns an invalid-MAC error and sends nothing.
C14_MagicPacket ==
  (call.fn = "SendWoL" /\ call.pc = "done") =>
    /\ Len(call.out.sent) <= 1
    /\ call.out.sent # <<>> =>
         /\ Len(call.in.bytes) = 6
         /\ LET data == call.out.sent[1].data IN
              /\ Len(data) = 102
              /\ \A k \in 1..6 : data[k] = 255
              /\ \A i \in 0..15 : \A j \in 1..6 : data[6 + 6 * i + j] = call.in.bytes[j]
    /\ Len(call.in.bytes) # 6 =>
         /\ call.out.err \in {"invalid MAC address", "MAC address must be 6 bytes"}
         /\ call.out.sent = <<>>

\* The magic packet of de:ef:00:11:22:33 written with capitals was sent.
C14_Witness ==
  /\ call.fn = "SendWoL" /\ call.pc = "done"
  /\ call.in.bytes = <<222, 239, 0, 17, 34, 51>> /\ call.in.macStr[1] = "D"
  /\ call.out.err = "" /\ Len(call.out.sent) = 1
  /\ call.out.sent[1].data[102] = 51

\* The number of host bits in byte i of an address with the given prefix length.
HostBits(ones, i) == IF ones >= 8 * i THEN 0 ELSE IF ones <= 8 * (i - 1) THEN 8 ELSE 8 * i - ones

\* C15: for an IPv4 address and a prefix mask the broadcast address has four bytes,
\* each ip[i] | ~mask[i]: it is the address with its host bits all set, and its OR
\* with the mask is 255.255.255.255.
C15_Broadcast ==
  (call.fn = "BroadcastAddr" /\ call.pc = "done" /\ To4(call.in.IP) # <<>>) =>
    LET ip == To4(call.in.IP) IN
      /\ Len(call.out) = 4
      /\ \A i \in 1..4 :
           LET hosts == 2 ^ HostBits(call.in.ones, i) IN
             /\ call.out[i] = ip[i] - (ip[i] % hosts) + hosts - 1
             /\ ByteOr(call.out[i], call.in.Mask[i]) = 255

\* 192.168.1.37/24 gave 192.168.1.255.
C15_Witness ==
  /\ call.fn = "BroadcastAddr" /\ call.pc = "done"
  /\ call.in.IP = IPv4Mapped(<<192, 168, 1, 37>>) /\ call.in.ones = 24
  /\ call.out = <<192, 168, 1, 255>>

\* The name the response of a finished parseNBSTATResponse call carries: that of its
\* first entry with suffix 0x00, group flag clear and a name; empty without one.
FirstUniqueName ==
  LET names == call.in.names
      good == {k \in 1..Len(names) :
                 names[k].suffix = 0 /\ names[k].flags[1] < 128 /\ names[k].name # <<>>}
  IN IF good = {} THEN <<>> ELSE names[SetMin(good)].name

\* C16: for a well-formed node status response, parseNBSTATResponse returns the
\* trimmed name of the first entry whose suffix is 0x00, whose group flag is clear and
\* whose name is not blank, skipping the entries before it, and the empty name when
\* there is no such entry.
C16_FirstUniqueName ==
  (call.fn = "parseNBSTATResponse" /\ call.pc = "done") => call.out = FirstUniqueName

\* For a response that echoes the question before the answer, the layout spec.md
\* 4.6.5 describes, the parser does return that name.
C16_EchoedQuestionLayout ==
  (call.fn = "parseNBSTATResponse" /\ call.pc = "done" /\ call.in.layout # "rfc1002") =>
    call.out = FirstUniqueName

\* C17: ListAllInterfaces lists every interface that is up and not loopback, and
\* every listed interface that is not LAN-suitable has IsVPN set.
C17_ListedAndFlagged ==
  (call.fn = "ListAllInterfaces" /\ call.pc = "done") =>
    /\ \A i \in 1..Len(call.in) :
         (call.in[i].up /\ ~call.in[i].loopback) =>
           \E e \in 1..Len(call.out) : call.out[e].Name = call.in[i].Name
    /\ \A e \in 1..Len(call.out) : \A i \in 1..Len(call.in) :
         (call.in[i].Name = call.out[e].Name /\ ~isLANSuitable(call.in[i])) =>
           call.out[e].IsVPN

\* What ListAllInterfaces does list: the interfaces that are up, not loopback and
\* have an IPv4 address, in their order, each once, with IsVPN set for the
\* point-to-point ones and those without broadcast.
C17_ListedWithIPv4 ==
  (call.fn = "ListAllInterfaces" /\ call.pc = "done") =>
    LET listed == SelectSeq(call.in, LAMBDA f : f.up /\ ~f.loopback /\ IPv4Addrs(f) # <<>>) IN
      /\ Len(call.out) = Len(listed)
      /\ \A e \in 1..Len(call.out) :
           /\ call.out[e].Name = listed[e].Name
           /\ call.out[e].IsVPN = (listed[e].p2p \/ ~listed[e].broadcast)

\* C18: an InterfaceInfo that NewInterfaceInfo returns, for a name or for none, has
\* an IPv4 address, is of an interface that is not loopback, and its subnet, the one
\* of that address, has a mask of at most /30; otherwise an error is returned.
C18_SelectedIsUsable ==
  (call.fn = "NewInterfaceInfo" /\ call.pc = "done" /\ call.out.ok) =>
    /\ call.out.IPv4Net.v4 /\ call.out.IPv4Addr = call.out.IPv4Net.ip
    /\ ~call.out.Interface.loopback
    /\ call.out.IPv4Net.ones <= 30

\* What does hold of a returned InterfaceInfo: it carries the first IPv4 address of
\* its interface, and that interface is the one named or, without a name, is not
\* loopback.
C18_FirstIPv4 ==
  (call.fn = "NewInterfaceInfo" /\ call.pc = "done" /\ call.out.ok) =>
    /\ call.out.IPv4Net = IPv4Addrs(call.out.Interface)[1]
    /\ call.in.name # "" => call.out.Interface.Name = call.in.name
    /\ call.in.name = "" => ~call.out.Interface.loopback /\ call.out.Interface.up

\* Without a name, the InterfaceInfo of an interface that is not LAN-suitable is
\* returned only on a host that has no LAN-suitable interface.
C18_DefaultPrefersLAN ==
  (call.fn = "NewInterfaceInfo" /\ call.pc = "done" /\ call.out.ok /\ call.in.name = "") =>
    (~isLANSuitable(call.out.Interface) =>
       \A k \in 1..Len(call.in.interfaces) : ~isLANSuitable(call.in.interfaces[k]))

\* C20: the event handler never stands blocked on its own emit: it is never at the
\* emit of HideView (while handling PortScanStarted) with the channel, which only it
\* receives from, full.
C20_HandlerNeverBlocked == ~(hpc = "emitHide" /\ ~ChannelOpen)

\* C23: the SSH-banner stage looks only at the port-22 banner and tests it without
\* regard to case in this order: a linux-distro keyword gives Linux, freebsd gives
\* FreeBSD, microsoft or windows gives Windows, openssh alone gives Linux, anything
\* else and a missing port-22 banner give the empty verdict.
C23_SSHStage ==
  (call.fn = "osFromSSHBanner" /\ call.pc = "done") =>
    LET b == IF 22 \in DOMAIN call.in THEN call.in[22] ELSE StrEmpty IN
      call.out = IF Mentions(b, LinuxHints) THEN "Linux"
                 ELSE IF Mentions(b, {<<"f", "r", "e", "e", "b", "s", "d">>}) THEN "FreeBSD"
                 ELSE IF Mentions(b, {<<"m", "i", "c", "r", "o", "s", "o", "f", "t">>, <<"w", "i", "n", "d", "o", "w", "s">>}) THEN "Windows"
                 ELSE IF Mentions(b, {<<"o", "p", "e", "n", "s", "s", "h">>}) THEN "Linux"
                 ELSE ""

\* The banner of OpenSSH for Windows was classified Windows.
C23_Witness ==
  /\ call.fn = "osFromSSHBanner" /\ call.pc = "done"
  /\ call.in = [p \in {22} |-> BannerOpenSSHForWindows]
  /\ call.out = "Windows"

\* C24: the HTTP-Server-header stage classifies without regard to case in this order:
\* microsoft or iis gives Windows, any linux-distro keyword of the SSH stage gives
\* Linux, darwin or macos gives macOS, freebsd gives FreeBSD, anything else and the
\* empty header give the empty verdict.
C24_HTTPServerStage ==
  (call.fn = "osFromHTTPServer" /\ call.pc = "done") =>
    call.out = IF Mentions(call.in, {<<"m", "i", "c", "r", "o", "s", "o", "f", "t">>, <<"i", "i", "s">>}) THEN "Windows"
               ELSE IF Mentions(call.in, LinuxHints) THEN "Linux"
               ELSE IF Mentions(call.in, {<<"d", "a", "r", "w", "i", "n">>, <<"m", "a", "c", "o", "s">>}) THEN "macOS"
               ELSE IF Mentions(call.in, {<<"f", "r", "e", "e", "b", "s", "d">>}) THEN "FreeBSD"
               ELSE ""

\* C25: the other-banners stage never uses the port-22 banner, and on a map with a
\* single banner on another port its verdict is the verdict of the HTTP-Server stage
\* on that banner's text.
C25_BannersAsHTTPServer ==
  (call.fn = "osFromBanners" /\ call.pc = "done") =>
    /\ DOMAIN call.in = {22} => call.out.os = ""
    /\ \A p \in DOMAIN call.in :
         (DOMAIN call.in = {p} /\ p # 22) => call.out.os = osFromHTTPServer(call.in[p])

\* C26: the extra_data stage classifies the flattened, lowered metadata in this order:
\* iphone, ipad or ipod gives iOS, before any Apple keyword; apple, airplay,
\* _companion-link, macos or "mac os" gives macOS; android gives Android; windows or
\* microsoft gives Windows; linux, ubuntu, debian or fedora gives Linux; anything else
\* and empty metadata give the empty verdict.
C26_ExtraDataStage ==
  (call.fn = "osFromExtraData" /\ call.pc = "done") =>
    LET text == flattenMap(call.in, call.out.eorder) IN
      call.out.os =
        IF DOMAIN call.in = {} THEN ""
        ELSE IF Mentions(text, {<<"i", "p", "h", "o", "n", "e">>, <<"i", "p", "a", "d">>, <<"i", "p", "o", "d">>}) THEN "iOS"
        ELSE IF Mentions(text, {<<"a", "p", "p", "l", "e">>, <<"a", "i", "r", "p", "l", "a", "y">>, <<"_", "c", "o", "m", "p", "a", "n", "i", "o", "n", "-", "l", "i", "n", "k">>, <<"m", "a", "c", "o", "s">>,
                                <<"m", "a", "c", " ", "o", "s">>})
          THEN "macOS"
        ELSE IF Mentions(text, {<<"a", "n", "d", "r", "o", "i", "d">>}) THEN "Android"
        ELSE IF Mentions(text, {<<"w", "i", "n", "d", "o", "w", "s">>, <<"m", "i", "c", "r", "o", "s", "o", "f", "t">>}) THEN "Windows"
        ELSE IF Mentions(text, {<<"l", "i", "n", "u", "x">>, <<"u", "b", "u", "n", "t", "u">>, <<"d", "e", "b", "i", "a", "n">>, <<"f", "e", "d", "o", "r", "a">>}) THEN "Linux"
        ELSE ""

\* Metadata naming both an iPhone and _companion-link was classified iOS.
C26_Witness ==
  /\ call.fn = "osFromExtraData" /\ call.pc = "done"
  /\ call.in = [k \in {KeyMdnsName} |-> <<"i", "P", "h", "o", "n", "e", "-", "1", "2", ".", "_", "c", "o", "m", "p", "a", "n", "i", "o", "n", "-", "l", "i", "n", "k", ".", "_", "t", "c", "p">>]
  /\ call.out.os = "iOS"

\* C27: the port heuristics give Windows iff 3389 is open or both 445 and 5985 are,
\* otherwise macOS iff 548 is open, otherwise the empty verdict; Windows wins when
\* both hold, and lists with the same ports in another order or with repetitions get
\* the same verdict.
C27_PortHeuristics ==
  (call.fn = "osFromPorts" /\ call.pc = "done") =>
    LET open == PortsOf(call.in)
        windows == 3389 \in open \/ (445 \in open /\ 5985 \in open)
    IN /\ call.out = "Windows" <=> windows
       /\ call.out = "macOS" <=> (~windows /\ 548 \in open)
       /\ call.out = "" <=> (~windows /\ 548 \notin open)
       /\ \A other \in PortLists : PortsOf(other) = open => osFromPorts(other) = call.out

\* A list with AFP first and RDP twice was classified Windows.
C27_Witness ==
  /\ call.fn = "osFromPorts" /\ call.pc = "done"
  /\ call.in = <<548, 3389, 3389>>
  /\ call.out = "Windows"

\* A whole entry at offset e of the buffer is selected: suffix 0x00, the group flag
\* clear and a name that is not blank.
SelectedEntryAt(data, e) ==
  /\ e + 18 <= Len(data)
  /\ At(data, e + 15) = 0 /\ At(data, e + 16) < 128
  /\ TrimRight(SubSeq(data, e + 1, e + 15)) # <<>>

\* C22: on every buffer the parser terminates, never reads outside the buffer, and
\* returns a name that is not empty only when a whole 18-byte entry that satisfies
\* the selection rule lies within the buffer, that entry's name.
C22_ParserSafe ==
  call.fn = "parseNBSTATResponse:steps" =>
    /\ call.pc # "panic"
    /\ call.pc # "call" => InBuffer(call.in, call.out.reads)
    /\ (call.pc = "done" /\ call.out.name # <<>>) =>
         \E e \in 0..Len(call.in) :
           /\ SelectedEntryAt(call.in, e)
           /\ call.out.name = TrimRight(SubSeq(call.in, e + 1, e + 15))
    /\ (call.pc = "done" /\ Len(call.in) < MinResponse) => call.out.name = <<>>

C22_ParserTotal == []C22_ParserSafe /\ <>(call.pc = "done")

\* The parser returned the empty name for a buffer whose second entry is cut by the
\* end of the buffer, having read the first entry, a group name, and nothing past it.
C22_Witness ==
  /\ call.fn = "parseNBSTATResponse:steps" /\ call.pc = "done"
  /\ call.out.name = <<>> /\ call.out.numNames = 2 /\ call.out.i = 1
  /\ ~EntryFits(call.in, call.out.pos) /\ call.out.pos < Len(call.in)

\* C21: RunAll's HTTPTitle (HTTPServer) is the first title (server) that is not empty
\* among the open HTTP ports taken in ascending order, whatever their order in
\* openPorts; a port outside {80, 443, 8080, 8443, 9090} is banner-grabbed and never
\* HTTP-fetched, a port inside it is HTTP-fetched and never banner-grabbed.
C21_AscendingHTTPPorts ==
  runAll.pc = "done" =>
    LET ports == {runAll.in.openPorts[k] : k \in 1..Len(runAll.in.openPorts)}
        banners == runAll.result.Banners
        answered == {p \in ports : isHTTPPort(p) /\ p \in DOMAIN banners}
        titled == {p \in answered : AnswerOf(banners[p]).title # StrEmpty}
        served == {p \in answered : AnswerOf(banners[p]).server # StrEmpty}
        called(name) == {runAll.ops[k].port : k \in {j \in 1..Len(runAll.ops) : runAll.ops[j].op = name}}
    IN /\ runAll.result.HTTPTitle =
            IF titled = {} THEN StrEmpty ELSE AnswerOf(banners[SetMin(titled)]).title
       /\ runAll.result.HTTPServer =
            IF served = {} THEN StrEmpty ELSE AnswerOf(banners[SetMin(served)]).server
       /\ called("GrabBanner") = {p \in ports : ~isHTTPPort(p)}
       /\ called("FetchHTTPInfo") = {p \in ports : isHTTPPort(p)}

\* The fields of a stored device a probe has no result for.
ProbeFrameFields ==
  {"IP", "MAC", "Manufacturer", "Sources", "ExtraData", "OpenPorts", "LastPortScan"}

\* C30: the step at which a probe stores its result changes only the probe-result
\* fields of the stored device; identity, sources, extra_data, open_ports and
\* last_port_scan are in the store after the step as they were before it, whatever a
\* port scan or a scan cycle wrote while the probe ran.
C30_ProbeFrame ==
  [][\A i \in DOMAIN probes :
       (probes[i].pc = "run" /\ i \in DOMAIN probes' /\ probes'[i].pc = "emit"
        /\ probes[i].dev.IP \in DOMAIN devices)
         => LET ip == probes[i].dev.IP IN
              /\ ip \in DOMAIN devices'
              /\ \A f \in ProbeFrameFields : devices'[ip][f] = devices[ip][f]]_vars

\* C29: once a switchInterface call has failed to resolve its interface, periodic
\* discovery goes on: a scan loop starts a further cycle (emits DiscoveryStarted)
\* again and again, with no further request of the user.
C29_DiscoveryContinues ==
  (\E i \in SwitchIds : switches[i].pc = "failed") ~> (\E g \in LoopIds : loops[g].pc = "ctx")

\* C28: every handled PortScanStarted is followed by its PortScanStopped and every
\* handled ProbeStarted by its ProbeStopped, so that the port-scanning flag and the
\* probing flag, once set, are always cleared again.
C28_FlagsReturn ==
  /\ isPortscanning ~> ~isPortscanning
  /\ isProbing ~> ~isProbing

====
